---------------------------- MODULE Spec2Model ----------------------------
(***************************************************************************)
(* A model of the snarkVM bytecode core: the Registers store with its      *)
(* define / assign / load discipline, and the evaluation of the            *)
(* commit.ped256 and hash.psd4 instructions against that store.            *)
(***************************************************************************)
EXTENDS Integers, Sequences, FiniteSets, TLC

VARIABLES
    registers,  \* Registers: locator -> [defined, value]
    halted,     \* TRUE once the invocation has been aborted by a halt
    outcome,    \* the last operation on the store and what it returned
    test,       \* the instruction a test has in hand
    text,       \* the text a test has in hand: a sequence of symbols
    bytes       \* the bytes a test has in hand

vars == <<registers, halted, outcome, test, text, bytes>>

-----------------------------------------------------------------------------
(* Bounds. *)

\* The number of registers of the frame: r0 .. r(NumRegisters - 1).
NumRegisters == 3

Locators == 0 .. (NumRegisters - 1)

-----------------------------------------------------------------------------
(* Mode: Constant < Public < Private. *)

Modes == {"constant", "public", "private"}

ModeRank(mode) ==
    CASE mode = "constant" -> 0
      [] mode = "public"   -> 1
      [] mode = "private"  -> 2

\* The mode of highest rank among a non-empty set of modes.
MaxMode(modes) == CHOOSE m \in modes : \A n \in modes : ModeRank(n) <= ModeRank(m)

-----------------------------------------------------------------------------
(* Literal and Value. *)

IntegerTypes == {"i8", "i16", "i32", "i64", "i128", "u8", "u16", "u32", "u64", "u128"}

LiteralTypes == {"address", "boolean", "field", "group", "scalar", "string"} \cup IntegerTypes

\* Literal::from_str("1field.public"): a typed value with its mode.  A string
\* literal's val is its bytes; every other val is a number (for a group or an
\* address, the x-coordinate) or the term of a primitive's output.
Literal(type, mode, val) == [kind |-> "literal", type |-> type, mode |-> mode, val |-> val]

Number(n) == [number |-> n]

Bytes(string) == [bytes |-> string]

\* Value::Composite(name, literals): a named, ordered list of literals.
Composite(name, literals) == [kind |-> "composite", name |-> name, literals |-> literals]

\* The absence of a value (Option::None).
NoValue == [kind |-> "none"]

\* The string of n bytes 'a' (0x61), as the tests write it.
StringOfA(n) == Bytes([k \in 1..n |-> 97])

\* The width in bits of an integer type.
IntegerBits(type) ==
    CASE type \in {"i8", "u8"}     -> 8
      [] type \in {"i16", "u16"}   -> 16
      [] type \in {"i32", "u32"}   -> 32
      [] type \in {"i64", "u64"}   -> 64
      [] type \in {"i128", "u128"} -> 128

\* The size in bits of the base field and of the scalar field.
FieldSizeInBits == 253
ScalarSizeInBits == 251

\* literal.to_bits_le().len(): the number of bits a literal flattens to.
NumBits(literal) ==
    CASE literal.type = "boolean" -> 1
      [] literal.type \in {"field", "group", "address"} -> FieldSizeInBits
      [] literal.type = "scalar" -> ScalarSizeInBits
      [] literal.type = "string" -> 8 * Len(literal.val.bytes)
      [] OTHER -> IntegerBits(literal.type)

\* The Literal leaves of a value, in declared order.
Leaves(value) ==
    IF value.kind = "literal" THEN <<value>> ELSE value.literals

RECURSIVE SumBits(_)
SumBits(literals) ==
    IF literals = <<>> THEN 0 ELSE NumBits(Head(literals)) + SumBits(Tail(literals))

\* The flattened bit-length of a value: its leaves' bits, concatenated.
FlattenedBits(value) == SumBits(Leaves(value))


-----------------------------------------------------------------------------
(* Register, Operand, Instruction. *)

\* Register::from_str("r0"): a register, named by its locator.
Register(locator) == [kind |-> "register", locator |-> locator]

RegisterOperands == {Register(n) : n \in Locators}

\* The opcode of hash.psd4 copied to commit.ped256: two variants share it.
CommitPed256OpcodeCopied == "hash.psd4"

CommitPed256Opcode == "commit.ped256"

\* The opcode of another instruction of the hash family.
HashPsd2Opcode == "hash.psd2"

HashPsd4Opcode == "hash.psd4"

Opcodes == {CommitPed256Opcode, HashPsd4Opcode}

\* BinaryOperation { first, second, destination }
BinaryOperation(first, second, destination) ==
    [operands |-> <<first, second>>, destination |-> destination]

\* UnaryOperation { first, destination }
UnaryOperation(first, destination) ==
    [operands |-> <<first>>, destination |-> destination]

\* Instruction::CommitPed256(CommitPed256 { operation })
CommitPed256(operation) == [variant |-> "CommitPed256", operation |-> operation]

\* Instruction::HashPsd4(HashPsd4 { operation })
HashPsd4(operation) == [variant |-> "HashPsd4", operation |-> operation]

\* Self::opcode() of the variant of the instruction.
opcode(instruction) ==
    IF instruction.variant = "CommitPed256" THEN CommitPed256Opcode ELSE HashPsd4Opcode

operands(instruction) == instruction.operation.operands

destination(instruction) == instruction.operation.destination

-----------------------------------------------------------------------------
(* The values of the tests. *)

\* Value::Composite("message", [true.public, false.private])
MessageOfBooleans ==
    Composite("message", <<Literal("boolean", "public", Number(1)), Literal("boolean", "private", Number(0))>>)

\* Value::Composite("message", [1field.public, 2field.private])
MessageOfFields ==
    Composite("message", <<Literal("field", "public", Number(1)), Literal("field", "private", Number(2))>>)

\* The mode of a literal written without one.
DefaultMode == "private"

\* Value::from_str("1scalar")
OneScalar == Literal("scalar", DefaultMode, Number(1))

\* The string of 32 bytes that commit.ped256 accepts, and the 35 bytes it does not.
StringAccepted == 32

StringRejected == 35

\* Two 128-bit integers: 256 bits, the most commit.ped256 accepts.
MessageOfIntegers ==
    Composite("message", <<Literal("u128", "public", Number(1)), Literal("i128", "constant", Number(1))>>)

\* A boolean and a string of 32 bytes: 257 bits, one more than it accepts.
MessageOfString ==
    Composite("message", <<Literal("boolean", "constant", Number(1)),
                           Literal("string", "constant", StringOfA(StringAccepted))>>)

\* The values a caller assigns to the input registers of a frame.
InputValues == { MessageOfFields, OneScalar }

\* The literals written as immediate operands, one of every type in every mode.
ImmediateOperands ==
    { Literal(type, mode, IF type = "string" THEN StringOfA(8) ELSE Number(1)) :
        type \in LiteralTypes, mode \in Modes }

\* The instructions of the frame's function.
Instructions ==
    { CommitPed256(BinaryOperation(Register(a), Register(b), Register(d))) :
        a \in Locators, b \in Locators, d \in Locators }
    \cup { HashPsd4(UnaryOperation(Register(a), Register(d))) : a \in Locators, d \in Locators }
    \cup { HashPsd4(UnaryOperation(Literal("boolean", "constant", Number(1)), Register(d))) : d \in Locators }

\* The first operands of the instructions the tests evaluate.
FirstValues ==
    { MessageOfBooleans, MessageOfFields, MessageOfIntegers, MessageOfString, OneScalar,
      Literal("string", "public", StringOfA(StringAccepted)),
      Literal("string", "private", StringOfA(StringRejected)),
      Literal("string", "constant", StringOfA(StringAccepted + 1)) }

\* The second operands: a randomness, or a value that is none.
SecondValues ==
    { OneScalar, Literal("scalar", "constant", Number(1)), Literal("field", "public", Number(1)), MessageOfBooleans }

\* The operands written in the randomness position of a commitment.
RandomnessOperands ==
    RegisterOperands \cup { OneScalar, Literal("scalar", "public", Number(1)), Literal("group", "private", Number(1)) }

\* The immediates written as the first operand of a commitment.
CommitOperands ==
    { l \in ImmediateOperands : l.type \in {"boolean", "field", "string", "u64", "address"} }

\* The instructions the tests evaluate: over registers and over immediates.
TestInstructions ==
    { CommitPed256(BinaryOperation(a, b, Register(d))) :
        a \in RegisterOperands \cup CommitOperands, b \in RandomnessOperands, d \in Locators }
    \cup { HashPsd4(UnaryOperation(a, Register(d))) :
             a \in RegisterOperands \cup ImmediateOperands, d \in Locators }

-----------------------------------------------------------------------------
(* Registers. *)

\* A register that was never defined.
Undefined == [defined |-> FALSE, value |-> NoValue]

IsDefined(regs, locator) == regs[locator].defined

IsAssigned(regs, locator) == regs[locator].value # NoValue

\* What an operation on a register returned: Ok or a recoverable Err, or the
\* halt that aborted the invocation, with its message and, for load, the value.
Returned(op, locator, res, msg, val) ==
    [op |-> op, locator |-> locator, res |-> res, msg |-> msg, val |-> val]

Ok(op, locator, val) == Returned(op, locator, "ok", <<>>, val)

Err(op, locator, msg) == Returned(op, locator, "error", msg, NoValue)

\* A halt that reports its message and lets the invocation go on.
HaltWithoutAbort(op, locator, msg) ==
    /\ outcome' = Returned(op, locator, "halt", msg, NoValue)
    /\ UNCHANGED <<registers, halted>>

\* P::halt(message): the invocation is aborted and the store is left as it is.
Halt(op, locator, msg) ==
    /\ halted' = TRUE
    /\ outcome' = Returned(op, locator, "halt", msg, NoValue)
    /\ UNCHANGED registers

\* Registers::default()
Init ==
    /\ registers = [n \in Locators |-> Undefined]
    /\ halted = FALSE
    /\ outcome = Ok("default", 0, NoValue)
    /\ test = NoValue
    /\ text = <<>>
    /\ bytes = <<>>

\* registers.define(register): a double define is an error.
Define(locator) ==
    /\ ~halted
    /\ IF IsDefined(registers, locator)
       THEN /\ outcome' = Err("define", locator, <<"register is already defined">>)
            /\ UNCHANGED <<registers, halted>>
       ELSE /\ registers' = [registers EXCEPT ![locator].defined = TRUE]
            /\ outcome' = Ok("define", locator, NoValue)
            /\ UNCHANGED halted

\* The store after a successful assign.
Stored(regs, locator, value) == [regs EXCEPT ![locator].value = value]

\* Assignable, without the check that the register holds no value yet.
AssignableWhenDefined(regs, locator) == IsDefined(regs, locator)

\* Assignable, without the check that the register was defined.
AssignableWhenUnassigned(regs, locator) == ~IsAssigned(regs, locator)

\* Whether assign accepts the register: defined, and not yet assigned.
Assignable(regs, locator) == IsDefined(regs, locator) /\ ~IsAssigned(regs, locator)

\* registers.assign(register, value)
Assign(locator, value) ==
    /\ ~halted
    /\ IF Assignable(registers, locator)
       THEN /\ registers' = Stored(registers, locator, value)
            /\ outcome' = Ok("assign", locator, NoValue)
            /\ UNCHANGED halted
       ELSE /\ outcome' = Err("assign", locator,
                                IF IsDefined(registers, locator)
                                          THEN <<"register is already assigned">>
                                          ELSE <<"register is not defined">>)
            /\ UNCHANGED <<registers, halted>>

LoadHaltMessage == <<"register is not assigned">>

\* Load, returning whatever the slot holds instead of halting.
LoadUnchecked(locator) ==
    /\ ~halted
    /\ outcome' = Ok("load", locator, registers[locator].value)
    /\ UNCHANGED <<registers, halted>>

\* registers.load(register): the value assigned, or a halt.
Load(locator) ==
    /\ ~halted
    /\ IF IsAssigned(registers, locator)
       THEN /\ outcome' = Ok("load", locator, registers[locator].value)
            /\ UNCHANGED <<registers, halted>>
       ELSE Halt("load", locator, LoadHaltMessage)

-----------------------------------------------------------------------------
(* Evaluation. *)

\* The value an operand resolves to: a register is loaded from the store
\* (NoValue when it is not assigned), a literal is itself.
Resolve(regs, operand) ==
    IF operand.kind = "register" THEN regs[operand.locator].value ELSE operand

\* The operands of an instruction, resolved in order.
Resolved(regs, instruction) ==
    [k \in DOMAIN operands(instruction) |-> Resolve(regs, operands(instruction)[k])]

\* Whether some operand is a register that is not assigned.
LoadsUnassigned(regs, instruction) ==
    \E k \in DOMAIN operands(instruction) : Resolve(regs, operands(instruction)[k]) = NoValue

\* The mode of the output: the maximum over the leaves of every operand.
OutputMode(values) ==
    MaxMode(UNION { { Leaves(values[k])[j].mode : j \in DOMAIN Leaves(values[k]) } :
                    k \in DOMAIN values })


\* A bound that already refuses an input of 256 bits.
PedersenNumBitsExclusive == 256 - 1

\* The bound of the 256-bit Pedersen commitment on its input.
PedersenNumBits == 256

PedersenHaltMessage == <<"The Pedersen hash input cannot exceed 256 bits.">>

\* P::halt(format!("Invalid '{}' instruction", Self::opcode()))
InvalidInstructionMessage(mnemonic) == <<"Invalid '", mnemonic, "' instruction">>

\* Values sampled as numbers lie in -2^30 .. 2^30 - 1.
SampleBits == 30

\* Bit i (from 0) of the two's complement of x, for x in -2^30 .. 2^30 - 1.
BitOf(x, i) == IF i < SampleBits THEN (x \div (2 ^ i)) % 2 = 1 ELSE x < 0

\* literal.to_bits_le(): the bits of a boolean, of a number or of the bytes of
\* a string, little endian. The bits of the output of a primitive are not
\* known: the output stands for them.
ToBitsLE(literal) ==
    CASE "primitive" \in DOMAIN literal.val -> << literal.val >>
      [] literal.type = "boolean" -> << literal.val.number = 1 >>
      [] literal.type = "string" ->
            [i \in 1 .. NumBits(literal) |->
                BitOf(literal.val.bytes[((i - 1) \div 8) + 1], (i - 1) % 8)]
      [] OTHER -> [i \in 1 .. NumBits(literal) |-> BitOf(literal.val.number, i - 1)]

RECURSIVE ConcatBitsLE(_)
ConcatBitsLE(literals) ==
    IF literals = <<>> THEN <<>> ELSE ToBitsLE(Head(literals)) \o ConcatBitsLE(Tail(literals))

\* The input a value presents to the Pedersen primitive: the bits of its
\* leaves, concatenated in their order.
FlattenToBits(value) == ConcatBitsLE(Leaves(value))

\* The field elements a leaf presents to the Poseidon primitive: a number of
\* any numeric type is the field element of that number, a string is the field
\* element packing its bytes.
ToFields(literal) == <<literal.val>>

RECURSIVE FlattenToFields(_)
FlattenToFields(literals) ==
    IF literals = <<>> THEN <<>>
    ELSE ToFields(Head(literals)) \o FlattenToFields(Tail(literals))

\* The primitives of the circuit backend: the output is a term over the input.
PedersenCommit(input, randomness) ==
    [primitive |-> "ped256", input |-> input, randomness |-> randomness]

PoseidonHash(input) == [primitive |-> "psd4", input |-> input]

\* The types the fixed-rate Poseidon hash does not take.
PoseidonRejects == {"boolean", "group", "address"}

\* The last step of evaluate: registers.assign(destination, output).
AssignOutput(instruction, output) ==
    LET locator == destination(instruction).locator
    IN  IF Assignable(registers, locator)
        THEN /\ registers' = Stored(registers, locator, output)
             /\ outcome' = Ok("evaluate", locator, NoValue)
             /\ UNCHANGED halted
        ELSE /\ outcome' = Err("evaluate", locator,
                                 IF IsDefined(registers, locator)
                                             THEN <<"register is already assigned">>
                                             ELSE <<"register is not defined">>)
             /\ UNCHANGED <<registers, halted>>

\* impl_commit_evaluate!(self, registers)
ImplCommitEvaluate(instruction) ==
    LET values == Resolved(registers, instruction)
        first == values[1]
        second == values[2]
        notRandomness == ~(second.kind = "literal" /\ second.type = "scalar")
        exceeds == FlattenedBits(first) > PedersenNumBits
        \* A value that is no randomness and an input that exceeds the bound both
        \* halt; which is found first when both hold is not fixed here.
        messages == (IF notRandomness THEN {InvalidInstructionMessage(CommitPed256Opcode)} ELSE {})
                    \cup (IF exceeds THEN {PedersenHaltMessage} ELSE {})
    IN  IF messages # {}
        THEN \E msg \in messages :
                Halt("evaluate", destination(instruction).locator, msg)
        ELSE AssignOutput(instruction,
                Literal("group", OutputMode(values),
                        PedersenCommit(FlattenToBits(first), second.val)))

\* impl_poseidon_evaluate!(self, registers)
ImplPoseidonEvaluate(instruction) ==
    LET values == Resolved(registers, instruction)
        first == values[1]
        rejected == { j \in DOMAIN Leaves(first) : Leaves(first)[j].type \in PoseidonRejects }
        accept == AssignOutput(instruction,
                      Literal("field", OutputMode(<<first>>),
                              PoseidonHash(FlattenToFields(Leaves(first)))))
        halt == Halt("evaluate", destination(instruction).locator,
                     InvalidInstructionMessage(HashPsd4Opcode))
    IN  IF rejected = {} THEN accept
        ELSE IF first.kind = "literal" THEN halt
        ELSE accept \/ halt

\* CommitPed256::evaluate storing its output whatever the destination holds.
CommitPed256EvaluateOverwriting(instruction) ==
    LET values == Resolved(registers, instruction)
        first == values[1]
        second == values[2]
    IN  IF second.kind # "literal" \/ second.type # "scalar"
        THEN Halt("evaluate", destination(instruction).locator,
                  InvalidInstructionMessage(CommitPed256Opcode))
        ELSE IF FlattenedBits(first) > PedersenNumBits
        THEN Halt("evaluate", destination(instruction).locator, PedersenHaltMessage)
        ELSE /\ registers' = Stored(registers, destination(instruction).locator,
                                    Literal("group", OutputMode(values),
                                            PedersenCommit(FlattenToBits(first), second.val)))
             /\ outcome' = Ok("evaluate", destination(instruction).locator, NoValue)
             /\ UNCHANGED halted

\* CommitPed256::evaluate expanding the macro of the hash family.
CommitPed256EvaluateAsHash(instruction) == ImplPoseidonEvaluate(instruction)

\* CommitPed256::evaluate(&self, registers)
CommitPed256Evaluate(instruction) == ImplCommitEvaluate(instruction)

\* HashPsd4::evaluate hashing every leaf of its operand with its type.
HashPsd4EvaluateTyped(instruction) ==
    LET first == Resolved(registers, instruction)[1]
        leaves == Leaves(first)
    IN  IF \E j \in DOMAIN leaves : leaves[j].type \in PoseidonRejects
        THEN Halt("evaluate", destination(instruction).locator,
                  InvalidInstructionMessage(HashPsd4Opcode))
        ELSE AssignOutput(instruction,
                Literal("field", OutputMode(<<first>>),
                        PoseidonHash([j \in DOMAIN leaves |->
                                        [number |-> leaves[j].val.number, type |-> leaves[j].type]])))

\* HashPsd4::evaluate hashing the leaves of its operand last to first.
HashPsd4EvaluateReversed(instruction) ==
    LET first == Resolved(registers, instruction)[1]
        leaves == Leaves(first)
        reversed == [j \in DOMAIN leaves |-> leaves[Len(leaves) + 1 - j]]
    IN  IF \E j \in DOMAIN leaves : leaves[j].type \in PoseidonRejects
        THEN Halt("evaluate", destination(instruction).locator,
                  InvalidInstructionMessage(HashPsd4Opcode))
        ELSE AssignOutput(instruction,
                Literal("field", OutputMode(<<first>>), PoseidonHash(FlattenToFields(reversed))))

\* HashPsd4::evaluate(&self, registers)
HashPsd4Evaluate(instruction) == ImplPoseidonEvaluate(instruction)

\* instruction.evaluate(registers): the operands are loaded first, and a load
\* of a register that is not assigned halts.
Evaluate(instruction) ==
    /\ ~halted
    /\ IF LoadsUnassigned(registers, instruction)
       THEN Halt("evaluate", destination(instruction).locator, LoadHaltMessage)
       ELSE IF instruction.variant = "CommitPed256"
            THEN CommitPed256Evaluate(instruction)
            ELSE HashPsd4Evaluate(instruction)

\* The operations of a frame, in any order.
Next ==
    \/ \E n \in Locators : Define(n) /\ UNCHANGED <<test, text, bytes>>
    \/ \E n \in Locators, value \in InputValues : Assign(n, value) /\ UNCHANGED <<test, text, bytes>>
    \/ \E n \in Locators : Load(n) /\ UNCHANGED <<test, text, bytes>>
    \/ \E instruction \in Instructions : Evaluate(instruction) /\ UNCHANGED <<test, text, bytes>>

Spec == Init /\ [][Next]_vars

\* The frame a test prepares: r0 and r1 defined and assigned, r2 defined; and
\* the instruction it is about to evaluate.
InitEvaluate ==
    /\ \E first \in FirstValues, second \in SecondValues :
          registers = [n \in Locators |->
                         CASE n = 0 -> [defined |-> TRUE, value |-> first]
                           [] n = 1 -> [defined |-> TRUE, value |-> second]
                           [] n = 2 -> [defined |-> TRUE, value |-> NoValue]
                           [] OTHER -> Undefined]
    /\ halted = FALSE
    /\ outcome = Ok("assign", 1, NoValue)
    /\ test \in TestInstructions
    /\ text = <<>>
    /\ bytes = <<>>

\* The test evaluates its instruction, once.
EvaluateTest ==
    /\ outcome.op = "assign"
    /\ Evaluate(test)
    /\ UNCHANGED <<test, text, bytes>>

NextEvaluate == EvaluateTest

SpecEvaluate == InitEvaluate /\ [][NextEvaluate]_vars

-----------------------------------------------------------------------------
(* Properties of the Registers store. *)

\* Where a register stands in its lifecycle: undefined 0, defined 1, assigned 2.
Stage(regs, n) == IF IsAssigned(regs, n) THEN 2 ELSE IF IsDefined(regs, n) THEN 1 ELSE 0

\* C1: registers are single-assignment.  Through every define, assign and
\* evaluate, a register that holds a value keeps exactly that value; an assign to
\* it returns an error and leaves the store as it was, and so does an
\* instruction that gets as far as assigning its output to it.
SingleAssignment ==
    [][ /\ \A n \in Locators :
             IsAssigned(registers, n) => registers'[n] = registers[n]
        /\ (/\ outcome'.op \in {"assign", "evaluate"}
            /\ IsAssigned(registers, outcome'.locator)
            /\ outcome'.res # "halt")
              => (outcome'.res = "error" /\ registers' = registers)
      ]_vars

\* C1, reached: an assign to a register that holds a value was rejected.
SecondAssignRejected ==
    /\ outcome = Err("assign", outcome.locator, <<"register is already assigned">>)
    /\ IsAssigned(registers, outcome.locator)

\* C2: a register only moves forward, one stage at a time, through undefined,
\* defined, assigned.  A define of a defined register and an assign to a
\* register never defined return an error and leave the store as it was.
LifecycleForward ==
    [][ /\ \A n \in Locators :
             /\ Stage(registers', n) >= Stage(registers, n)
             /\ Stage(registers', n) <= Stage(registers, n) + 1
             /\ IsAssigned(registers', n) => IsDefined(registers', n)
        /\ (outcome'.op = "define" /\ IsDefined(registers, outcome'.locator))
              => (outcome'.res = "error" /\ registers' = registers)
        /\ (outcome'.op = "assign" /\ ~IsDefined(registers, outcome'.locator))
              => (outcome'.res = "error" /\ registers' = registers)
      ]_vars

\* C2, reached: an assign to a register never defined was rejected, on a store
\* where another register has been defined.
UndefinedAssignRejected ==
    /\ outcome = Err("assign", outcome.locator, <<"register is not defined">>)
    /\ Stage(registers, outcome.locator) = 0
    /\ \E n \in Locators : IsDefined(registers, n)

\* C3: a load of a register that is undefined, or defined and not assigned,
\* halts the invocation and returns no value; a load of an assigned register
\* returns the value the register holds, and the store is left as it was.
LoadDiscipline ==
    [][ outcome'.op = "load"
          => /\ registers' = registers
             /\ IF Stage(registers, outcome'.locator) = 2
                THEN /\ outcome'.res = "ok"
                     /\ outcome'.val = registers[outcome'.locator].value
                     /\ outcome'.val # NoValue
                     /\ ~halted'
                ELSE /\ outcome'.res = "halt"
                     /\ outcome'.val = NoValue
                     /\ halted'
      ]_vars

\* C3, reached: the load of a register defined and not assigned halted.
UnassignedLoadHalted ==
    /\ halted
    /\ outcome.op = "load"
    /\ outcome.res = "halt"
    /\ Stage(registers, outcome.locator) = 1

\* C7: a halt during evaluate aborts the invocation with no partial state.
\* The step that halts changes no register, its destination included, and
\* after it nothing of the invocation changes: no instruction is evaluated.
HaltAborts ==
    [][ /\ outcome'.res = "halt" => (halted' /\ registers' = registers)
        /\ halted => UNCHANGED vars
        /\ halted' <=> (outcome'.res = "halt")
      ]_vars

\* C7, reached: a commitment halted on its input, and its destination, a
\* defined register, is left without a value.
CommitHalted ==
    /\ halted
    /\ outcome.op = "evaluate"
    /\ outcome.msg = PedersenHaltMessage
    /\ Stage(registers, outcome.locator) = 1

-----------------------------------------------------------------------------
(* Properties of evaluate. *)

\* The leaves an instruction consumes: those of every operand, resolved.
Consumed(regs, instruction) ==
    UNION { { Leaves(Resolve(regs, operands(instruction)[k]))[j] :
                j \in DOMAIN Leaves(Resolve(regs, operands(instruction)[k])) } :
            k \in DOMAIN operands(instruction) }

\* Whether every register operand of the instruction holds a value.
OperandsAssigned(regs, instruction) ==
    \A k \in DOMAIN operands(instruction) :
        operands(instruction)[k].kind = "register"
            => Stage(regs, operands(instruction)[k].locator) = 2

\* C4: when an evaluation succeeds, the output is a literal whose mode is the
\* maximum, in the order constant < public < private, of the modes of the
\* leaves of all operands: no consumed leaf has a higher mode, and one has it.
ModePropagation ==
    [][ (outcome'.op = "evaluate" /\ outcome'.res = "ok")
          => LET out == registers'[destination(test).locator].value
                 consumed == Consumed(registers, test)
             IN  /\ out.kind = "literal"
                 /\ \E leaf \in consumed : leaf.mode = out.mode
                 /\ \A leaf \in consumed : ModeRank(leaf.mode) <= ModeRank(out.mode)
      ]_vars

\* C4, reached: the commitment of [true.public, false.private] under the
\* randomness 1scalar is a private group.
CompositeCommitted ==
    /\ outcome = Ok("evaluate", 2, NoValue)
    /\ test = CommitPed256(BinaryOperation(Register(0), Register(1), Register(2)))
    /\ registers[0].value = MessageOfBooleans
    /\ registers[1].value = OneScalar
    /\ registers[2].value.type = "group"
    /\ registers[2].value.mode = "private"

\* C5: commit.ped256 halts with the Pedersen message exactly when its first
\* operand flattens to more than 256 bits, be it a literal or a composite; an
\* input of 256 bits is accepted, and the bits of the randomness do not count.
\* (When the second operand is no scalar the instruction halts as well, with
\* this message only if the first operand exceeds the bound.)
PedersenBound ==
    [][ (/\ outcome'.op = "evaluate"
         /\ test.variant = "CommitPed256"
         /\ OperandsAssigned(registers, test))
          => LET first == Resolve(registers, operands(test)[1])
                 second == Resolve(registers, operands(test)[2])
                 bits == FlattenedBits(first)
                 pedersen == /\ outcome'.res = "halt"
                             /\ outcome'.msg = <<"The Pedersen hash input cannot exceed 256 bits.">>
             IN  /\ pedersen => bits > 256
                 /\ bits > 256 => outcome'.res = "halt"
                 /\ (second.kind = "literal" /\ second.type = "scalar")
                       => /\ pedersen <=> (bits > 256)
                          /\ bits <= 256 => outcome'.res # "halt"
      ]_vars

\* C5, reached: the commitment of a composite of 257 bits halted.
CompositeExceeds ==
    /\ halted
    /\ outcome.msg = PedersenHaltMessage
    /\ test = CommitPed256(BinaryOperation(Register(0), Register(1), Register(2)))
    /\ registers[0].value = MessageOfString
    /\ registers[1].value = OneScalar

\* The types hash.psd4 is documented to take.
PoseidonTypes == {"field", "scalar", "string"} \cup IntegerTypes

\* C6: hash.psd4 halts with "Invalid 'hash.psd4' instruction" on a boolean, a
\* group or an address literal, in every mode; it does not halt on a field, a
\* scalar, an integer of any width, a string, or a composite of such leaves.
PoseidonDomain ==
    [][ (/\ outcome'.op = "evaluate"
         /\ test.variant = "HashPsd4"
         /\ OperandsAssigned(registers, test))
          => LET first == Resolve(registers, operands(test)[1])
             IN  /\ (first.kind = "literal" /\ first.type \in {"boolean", "group", "address"})
                       => /\ outcome'.res = "halt"
                          /\ outcome'.msg = <<"Invalid '", "hash.psd4", "' instruction">>
                 /\ (\A leaf \in Consumed(registers, test) : leaf.type \in PoseidonTypes)
                       => outcome'.res # "halt"
      ]_vars

\* C6, reached: the hash of an address immediate, a public one, halted.
HashRejected ==
    /\ halted
    /\ outcome.msg = <<"Invalid '", "hash.psd4", "' instruction">>
    /\ operands(test) = <<Literal("address", "public", Number(1))>>

-----------------------------------------------------------------------------
(* The text of an instruction.  A text is a sequence of symbols: a digit, a
   space, a punctuation mark or a keyword of the language. *)

Digits == <<"0", "1", "2", "3", "4", "5", "6", "7", "8", "9">>

IsDigit(symbol) == \E d \in DOMAIN Digits : Digits[d] = symbol

DigitValue(symbol) == (CHOOSE d \in DOMAIN Digits : Digits[d] = symbol) - 1

\* The types a literal is written with as the suffix of a number.
NumberTypes == (LiteralTypes \ {"boolean", "string", "address"})

\* The decimal digits of a number, most significant first.
RECURSIVE NumberDisplay(_)
NumberDisplay(n) ==
    IF n < 10 THEN <<Digits[n + 1]>> ELSE NumberDisplay(n \div 10) \o <<Digits[(n % 10) + 1]>>

\* "r" and the locator.
RegisterDisplay(register) == <<"r">> \o NumberDisplay(register.locator)

\* The value, its type, and always its mode: "1field.public", "true.private".
LiteralDisplay(literal) ==
    (IF literal.type = "boolean"
        THEN <<IF literal.val = Number(1) THEN "true" ELSE "false">>
        ELSE NumberDisplay(literal.val.number) \o <<literal.type>>)
    \o <<".", literal.mode>>

OperandDisplay(operand) ==
    IF operand.kind = "register" THEN RegisterDisplay(operand) ELSE LiteralDisplay(operand)

\* "{first} {second} into {destination}"
BinaryOperationDisplay(operation) ==
    OperandDisplay(operation.operands[1]) \o <<" ">> \o OperandDisplay(operation.operands[2])
    \o <<" ", "into", " ">> \o RegisterDisplay(operation.destination)

\* "{first} into {destination}"
UnaryOperationDisplay(operation) ==
    OperandDisplay(operation.operands[1]) \o <<" ", "into", " ">> \o RegisterDisplay(operation.destination)

\* write!(f, "{}", self.operation)
CommitPed256Display(instruction) == BinaryOperationDisplay(instruction.operation)

\* write!(f, "{}", self.operation)
HashPsd4Display(instruction) == UnaryOperationDisplay(instruction.operation)

\* "{opcode} {instruction};"
InstructionDisplay(instruction) ==
    <<opcode(instruction), " ">>
    \o (IF instruction.variant = "CommitPed256"
           THEN CommitPed256Display(instruction)
           ELSE HashPsd4Display(instruction))
    \o <<";">>

\* What a parser returns: the value and the text that remains, or an error
\* that consumed nothing.
Parsed(value, rest) == [ok |-> TRUE, value |-> value, rest |-> rest]

ParseError(rest) == [ok |-> FALSE, value |-> NoValue, rest |-> rest]

\* `let (rest, value) = result?;` and what follows it: the error of the
\* parser of `string` when the result is one.
AndThen(string, result, next) == IF result.ok THEN next ELSE ParseError(string)

\* alt((first, second)): the first, or the second when the first is an error.
Alt(first, second) == IF first.ok THEN first ELSE second

\* The symbol itself.
Tag(symbol, string) ==
    IF string # <<>> /\ Head(string) = symbol THEN Parsed(NoValue, Tail(string)) ELSE ParseError(string)

\* The text after its leading spaces.
RECURSIVE SkipSpaces(_)
SkipSpaces(string) ==
    IF string # <<>> /\ Head(string) = " " THEN SkipSpaces(Tail(string)) ELSE string

\* One space or more.
Spaces(string) ==
    LET AfterSpace(space) == AndThen(string, space, Parsed(NoValue, SkipSpaces(space.rest)))
    IN  AfterSpace(Tag(" ", string))

\* The digits at the head of the text, read as a decimal number.
RECURSIVE ReadDigits(_, _)
ReadDigits(string, number) ==
    IF string # <<>> /\ IsDigit(Head(string))
        THEN ReadDigits(Tail(string), 10 * number + DigitValue(Head(string)))
        ELSE Parsed(Number(number), string)

NumberParse(string) ==
    IF string # <<>> /\ IsDigit(Head(string)) THEN ReadDigits(string, 0) ELSE ParseError(string)

\* "r" and the locator.
RegisterParse(string) ==
    LET AfterLocator(locator) ==
            AndThen(string, locator, Parsed(Register(locator.value.number), locator.rest))
        AfterR(r) == AndThen(string, r, AfterLocator(NumberParse(r.rest)))
    IN  AfterR(Tag("r", string))

\* "." and a mode, or nothing: then the literal has the default mode.
ModeParse(string) ==
    LET AfterDot(dot) ==
            IF dot.ok /\ dot.rest # <<>> /\ Head(dot.rest) \in Modes
                THEN Parsed(Head(dot.rest), Tail(dot.rest))
                ELSE Parsed(DefaultMode, string)
    IN  AfterDot(Tag(".", string))

\* "true" or "false".
BooleanParse(string) ==
    IF string # <<>> /\ Head(string) \in {"true", "false"}
        THEN Parsed([type |-> "boolean", val |-> Number(IF Head(string) = "true" THEN 1 ELSE 0)], Tail(string))
        ELSE ParseError(string)

\* A number and its type.
TypedNumberParse(string) ==
    LET AfterNumber(number) ==
            IF number.ok /\ number.rest # <<>> /\ Head(number.rest) \in NumberTypes
                THEN Parsed([type |-> Head(number.rest), val |-> number.value], Tail(number.rest))
                ELSE ParseError(string)
    IN  AfterNumber(NumberParse(string))

\* The value of a literal, then its mode.
LiteralParse(string) ==
    LET AfterMode(value, mode) ==
            AndThen(string, mode, Parsed(Literal(value.value.type, mode.value, value.value.val), mode.rest))
        AfterValue(value) == AndThen(string, value, AfterMode(value, ModeParse(value.rest)))
    IN  AfterValue(Alt(BooleanParse(string), TypedNumberParse(string)))

\* A literal, or else a register.
OperandParse(string) == Alt(LiteralParse(string), RegisterParse(string))

\* " into " and the destination register.
DestinationParse(string) ==
    LET AfterRegister(register) == AndThen(string, register, register)
        AfterSpaces(space) == AndThen(string, space, AfterRegister(RegisterParse(space.rest)))
        AfterInto(into) == AndThen(string, into, AfterSpaces(Spaces(into.rest)))
        AfterLeadingSpaces(space) == AndThen(string, space, AfterInto(Tag("into", space.rest)))
    IN  AfterLeadingSpaces(Spaces(string))

\* "{first} {second} into {destination}"
BinaryOperationParse(string) ==
    LET AfterDestination(first, second, register) ==
            AndThen(string, register,
                    Parsed(BinaryOperation(first.value, second.value, register.value), register.rest))
        AfterSecond(first, second) ==
            AndThen(string, second, AfterDestination(first, second, DestinationParse(second.rest)))
        AfterSpaces(first, space) == AndThen(string, space, AfterSecond(first, OperandParse(space.rest)))
        AfterFirst(first) == AndThen(string, first, AfterSpaces(first, Spaces(first.rest)))
    IN  AfterFirst(OperandParse(string))

\* "{first} into {destination}"
UnaryOperationParse(string) ==
    LET AfterDestination(first, register) ==
            AndThen(string, register, Parsed(UnaryOperation(first.value, register.value), register.rest))
        AfterFirst(first) == AndThen(string, first, AfterDestination(first, DestinationParse(first.rest)))
    IN  AfterFirst(OperandParse(string))

\* map(UnaryOperation::parse, |operation| Self { operation })
HashPsd4Parse(string) ==
    LET Map(operation) == AndThen(string, operation, Parsed(HashPsd4(operation.value), operation.rest))
    IN  Map(UnaryOperationParse(string))

\* The parser of hash.psd4 copied: one operand is parsed.
CommitPed256ParseUnary(string) ==
    LET Map(operation) == AndThen(string, operation, Parsed(CommitPed256(operation.value), operation.rest))
    IN  Map(UnaryOperationParse(string))

\* map(BinaryOperation::parse, |operation| Self { operation })
CommitPed256Parse(string) ==
    LET Map(operation) == AndThen(string, operation, Parsed(CommitPed256(operation.value), operation.rest))
    IN  Map(BinaryOperationParse(string))

\* The text after an opcode and the space that follows it.
Preceded(mnemonic, string) ==
    LET AfterOpcode(tag) == AndThen(string, tag, Spaces(tag.rest))
    IN  AfterOpcode(Tag(mnemonic, string))

\* Instruction::parse: the leading spaces, then the variant whose opcode leads
\* the text, and the semicolon.  A text that no variant parses is an error.
InstructionParse(string) ==
    LET AsCommitPed256(preceded) == AndThen(string, preceded, CommitPed256Parse(preceded.rest))
        AsHashPsd4(preceded) == AndThen(string, preceded, HashPsd4Parse(preceded.rest))
        AfterSemicolon(instruction, semicolon) ==
            AndThen(string, semicolon, Parsed(instruction.value, semicolon.rest))
        AfterInstruction(instruction) ==
            AndThen(string, instruction, AfterSemicolon(instruction, Tag(";", instruction.rest)))
    IN  AfterInstruction(Alt(AsCommitPed256(Preceded(CommitPed256Opcode, SkipSpaces(string))),
                             AsHashPsd4(Preceded(HashPsd4Opcode, SkipSpaces(string)))))

\* Instruction::from_str: the whole text is one instruction.
InstructionFromStr(string) ==
    LET Whole(instruction) ==
            IF instruction.ok /\ instruction.rest = <<>> THEN instruction ELSE ParseError(string)
    IN  Whole(InstructionParse(string))

\* The registers and the literals written as operands, as instructions hold them.
CodecOperands ==
    { Register(0), Register(12), Register(258),
      Literal("field", "public", Number(1)), Literal("u8", "private", Number(25)),
      Literal("scalar", "constant", Number(300)), Literal("boolean", "constant", Number(1)),
      Literal("boolean", "private", Number(0)) }

CodecDestinations == { Register(2), Register(10), Register(65536) }

\* The instructions that are displayed and encoded.
CodecInstructions ==
    { CommitPed256(BinaryOperation(a, b, d)) : a \in CodecOperands, b \in CodecOperands, d \in CodecDestinations }
    \cup { HashPsd4(UnaryOperation(a, d)) : a \in CodecOperands, d \in CodecDestinations }

\* The operands as a program text writes them, the mode of a literal written
\* or left out.
OperandTexts ==
    { <<"r", "0">>, <<"r", "1", "2">>, <<"1", "field", ".", "public">>,
      <<"2", "5", "u8", ".", "private">>, <<"true", ".", "constant">>, <<"1", "scalar">> }

DestinationTexts == { <<"r", "2">>, <<"r", "1", "0">> }

\* Nothing or a space leads a text, and one space or two separate its parts.
LeadingSpaces == { <<>>, <<" ">> }

Separators == { <<" ">>, <<" ", " ">> }

\* "commit.ped256 r0 r1 into r2;" and the like.
CommitPed256Texts ==
    { lead \o <<"commit.ped256">> \o sep \o a \o sep \o b \o sep \o <<"into">> \o sep \o d \o <<";">> :
        lead \in LeadingSpaces, sep \in Separators, a \in OperandTexts, b \in OperandTexts,
        d \in DestinationTexts }

\* "hash.psd4 r0 into r1;" and the like.
HashPsd4Texts ==
    { lead \o <<"hash.psd4">> \o sep \o a \o sep \o <<"into">> \o sep \o d \o <<";">> :
        lead \in LeadingSpaces, sep \in Separators, a \in OperandTexts, d \in DestinationTexts }

\* Texts that are no instruction: an opcode of no variant, an operand too
\* few or too many, no destination, no semicolon.
MalformedTexts ==
    { <<"hash.psd2", " ", "r", "0", " ", "into", " ", "r", "1", ";">>,
      <<"add", " ", "r", "0", " ", "r", "1", " ", "into", " ", "r", "2", ";">>,
      <<"r", "0", " ", "r", "1", " ", "into", " ", "r", "2", ";">>,
      <<"commit.ped256", " ", "r", "0", " ", "into", " ", "r", "2", ";">>,
      <<"hash.psd4", " ", "r", "0", " ", "r", "1", " ", "into", " ", "r", "2", ";">>,
      <<"commit.ped256", " ", "r", "0", " ", "r", "1", ";">>,
      <<"hash.psd4", " ", "r", "0", " ", "into", " ", "r", "1">>,
      <<"commit.ped256", "r", "0", " ", "r", "1", " ", "into", " ", "r", "2", ";">> }

Texts == CommitPed256Texts \cup HashPsd4Texts \cup MalformedTexts

-----------------------------------------------------------------------------
(* The bytes of an instruction. *)

\* The number as `size` bytes, the least significant first.
RECURSIVE NumberWriteLE(_, _)
NumberWriteLE(number, size) ==
    IF size = 0 THEN <<>> ELSE <<number % 256>> \o NumberWriteLE(number \div 256, size - 1)

\* The number that the bytes are, the least significant first.
RECURSIVE NumberFromLE(_)
NumberFromLE(string) ==
    IF string = <<>> THEN 0 ELSE Head(string) + 256 * NumberFromLE(Tail(string))

\* `size` bytes read as a number, or an error when fewer remain.
NumberReadLE(string, size) ==
    IF Len(string) >= size
        THEN Parsed(Number(NumberFromLE(SubSeq(string, 1, size))), SubSeq(string, size + 1, Len(string)))
        ELSE ParseError(string)

\* The variants of Instruction, of Literal and of Mode in the order of their
\* discriminants, the first being 0.
InstructionVariants == <<"CommitPed256", "HashPsd4">>

LiteralVariants ==
    <<"address", "boolean", "field", "group", "i8", "i16", "i32", "i64", "i128",
      "u8", "u16", "u32", "u64", "u128", "scalar", "string">>

ModeVariants == <<"constant", "public", "private">>

Discriminant(variants, variant) == (CHOOSE k \in DOMAIN variants : variants[k] = variant) - 1

\* The bytes of the value of a literal of the type.
SizeInBytes(type) ==
    CASE type = "boolean" -> 1
      [] type \in IntegerTypes -> IntegerBits(type) \div 8
      [] OTHER -> 32

\* A register is its locator, a u64.
RegisterWriteLE(register) == NumberWriteLE(register.locator, 8)

RegisterReadLE(string) ==
    LET AfterLocator(locator) ==
            AndThen(string, locator, Parsed(Register(locator.value.number), locator.rest))
    IN  AfterLocator(NumberReadLE(string, 8))

\* A literal is its type, a u16, its mode, a u8, and its value.
LiteralWriteLE(literal) ==
    NumberWriteLE(Discriminant(LiteralVariants, literal.type), 2)
    \o <<Discriminant(ModeVariants, literal.mode)>>
    \o NumberWriteLE(literal.val.number, SizeInBytes(literal.type))

LiteralReadLE(string) ==
    LET AfterValue(type, mode, val) == AndThen(string, val, Parsed(Literal(type, mode, val.value), val.rest))
        Value(type, mode, rest) == AfterValue(type, mode, NumberReadLE(rest, SizeInBytes(type)))
        AfterMode(variant, mode) ==
            IF /\ mode.ok
               /\ variant.value.number < Len(LiteralVariants)
               /\ LiteralVariants[variant.value.number + 1] # "string"
               /\ mode.value.number < Len(ModeVariants)
                THEN Value(LiteralVariants[variant.value.number + 1], ModeVariants[mode.value.number + 1],
                           mode.rest)
                ELSE ParseError(string)
        AfterVariant(variant) == AndThen(string, variant, AfterMode(variant, NumberReadLE(variant.rest, 1)))
    IN  AfterVariant(NumberReadLE(string, 2))

\* An operand is a byte that tells a literal, 0, from a register, 1, and then
\* the one or the other.
OperandWriteLE(operand) ==
    IF operand.kind = "literal" THEN <<0>> \o LiteralWriteLE(operand) ELSE <<1>> \o RegisterWriteLE(operand)

OperandReadLE(string) ==
    LET AfterOperand(operand) == AndThen(string, operand, operand)
        AfterVariant(variant) ==
            IF variant.ok /\ variant.value.number = 0 THEN AfterOperand(LiteralReadLE(variant.rest))
            ELSE IF variant.ok /\ variant.value.number = 1 THEN AfterOperand(RegisterReadLE(variant.rest))
            ELSE ParseError(string)
    IN  AfterVariant(NumberReadLE(string, 1))

\* The operands in their order, then the destination.
BinaryOperationWriteLE(operation) ==
    OperandWriteLE(operation.operands[1]) \o OperandWriteLE(operation.operands[2])
    \o RegisterWriteLE(operation.destination)

BinaryOperationReadLE(string) ==
    LET AfterDestination(first, second, register) ==
            AndThen(string, register,
                    Parsed(BinaryOperation(first.value, second.value, register.value), register.rest))
        AfterSecond(first, second) ==
            AndThen(string, second, AfterDestination(first, second, RegisterReadLE(second.rest)))
        AfterFirst(first) == AndThen(string, first, AfterSecond(first, OperandReadLE(first.rest)))
    IN  AfterFirst(OperandReadLE(string))

UnaryOperationWriteLE(operation) ==
    OperandWriteLE(operation.operands[1]) \o RegisterWriteLE(operation.destination)

UnaryOperationReadLE(string) ==
    LET AfterDestination(first, register) ==
            AndThen(string, register, Parsed(UnaryOperation(first.value, register.value), register.rest))
        AfterFirst(first) == AndThen(string, first, AfterDestination(first, RegisterReadLE(first.rest)))
    IN  AfterFirst(OperandReadLE(string))

\* self.operation.write_le(&mut writer)
HashPsd4WriteLE(instruction) == UnaryOperationWriteLE(instruction.operation)

\* Ok(Self { operation: UnaryOperation::read_le(&mut reader)? })
HashPsd4ReadLE(string) ==
    LET Wrap(operation) == AndThen(string, operation, Parsed(HashPsd4(operation.value), operation.rest))
    IN  Wrap(UnaryOperationReadLE(string))

\* self.operation.write_le(&mut writer)
CommitPed256WriteLE(instruction) == BinaryOperationWriteLE(instruction.operation)

\* The reader of hash.psd4 copied: one operand is read.
CommitPed256ReadLEUnary(string) ==
    LET Wrap(operation) == AndThen(string, operation, Parsed(CommitPed256(operation.value), operation.rest))
    IN  Wrap(UnaryOperationReadLE(string))

\* Ok(Self { operation: BinaryOperation::read_le(&mut reader)? })
CommitPed256ReadLE(string) ==
    LET Wrap(operation) == AndThen(string, operation, Parsed(CommitPed256(operation.value), operation.rest))
    IN  Wrap(BinaryOperationReadLE(string))

\* Instruction::write_le: the discriminant of the variant, a u16, and the variant.
InstructionWriteLE(instruction) ==
    NumberWriteLE(Discriminant(InstructionVariants, instruction.variant), 2)
    \o (IF instruction.variant = "CommitPed256"
           THEN CommitPed256WriteLE(instruction)
           ELSE HashPsd4WriteLE(instruction))

\* Instruction::read_le: the variant that the discriminant tells, or an error.
InstructionReadLE(string) ==
    LET AfterInstruction(instruction) == AndThen(string, instruction, instruction)
        AfterVariant(variant) ==
            IF ~variant.ok \/ variant.value.number >= Len(InstructionVariants) THEN ParseError(string)
            ELSE IF InstructionVariants[variant.value.number + 1] = "CommitPed256"
                THEN AfterInstruction(CommitPed256ReadLE(variant.rest))
            ELSE AfterInstruction(HashPsd4ReadLE(variant.rest))
    IN  AfterVariant(NumberReadLE(string, 2))

\* The bytes that follow an instruction in a stream.
FollowingBytes == { <<>>, <<1>>, <<0, 0, 1, 2>> }

\* Streams that are no instruction: a discriminant of no variant, the
\* discriminant of no operand, an instruction cut short.
MalformedBytes ==
    { <<2, 0, 1, 0, 0, 0, 0, 0, 0, 0, 0>>,
      <<1, 0, 2, 0, 0, 0, 0, 0, 0, 0, 0>>,
      <<1, 0, 1, 0, 0, 0, 0, 0, 0, 0, 0, 1, 0, 0>>,
      <<0>> }

-----------------------------------------------------------------------------
(* The tests of the text and of the bytes. *)

ParseErrorMessage == <<"parse error">>

ReadErrorMessage == <<"read error">>

\* A test takes an instruction in hand, or a text, or a stream of bytes.
InitCodec ==
    /\ registers = [n \in Locators |-> Undefined]
    /\ halted = FALSE
    /\ \/ /\ test \in CodecInstructions
          /\ text = <<>>
          /\ bytes \in FollowingBytes
          /\ outcome = Ok("instruction", 0, NoValue)
       \/ /\ test = NoValue
          /\ text \in Texts
          /\ bytes = <<>>
          /\ outcome = Ok("text", 0, NoValue)
       \/ /\ test = NoValue
          /\ text = <<>>
          /\ bytes \in MalformedBytes
          /\ outcome = Ok("bytes", 0, NoValue)

\* instruction.to_string()
DisplayInstruction ==
    /\ outcome.res = "ok"
    /\ outcome.op \in {"instruction", "from_str"}
    /\ text' = InstructionDisplay(test)
    /\ outcome' = Ok("to_string", 0, NoValue)
    /\ UNCHANGED <<registers, halted, test, bytes>>

\* Instruction::from_str(text): the instruction, or an error.
ParseText ==
    /\ outcome.op \in {"text", "to_string"}
    /\ LET parsed == InstructionFromStr(text)
       IN  /\ test' = parsed.value
           /\ outcome' = IF parsed.ok THEN Ok("from_str", 0, NoValue) ELSE Err("from_str", 0, ParseErrorMessage)
    /\ UNCHANGED <<registers, halted, text, bytes>>

\* instruction.write_le(&mut writer), the writer being ahead of the bytes that follow.
WriteInstruction ==
    /\ outcome.op = "instruction"
    /\ bytes' = InstructionWriteLE(test) \o bytes
    /\ outcome' = Ok("write_le", 0, NoValue)
    /\ UNCHANGED <<registers, halted, test, text>>

\* Instruction::read_le(&mut reader): the instruction and the reader behind
\* it, or an error.
ReadInstruction ==
    /\ outcome.op \in {"bytes", "write_le"}
    /\ LET read == InstructionReadLE(bytes)
       IN  /\ test' = read.value
           /\ bytes' = read.rest
           /\ outcome' = IF read.ok THEN Ok("read_le", 0, NoValue) ELSE Err("read_le", 0, ReadErrorMessage)
    /\ UNCHANGED <<registers, halted, text>>

NextCodec ==
    \/ DisplayInstruction
    \/ ParseText
    \/ WriteInstruction
    \/ ReadInstruction

SpecCodec == InitCodec /\ [][NextCodec]_vars

-----------------------------------------------------------------------------
(* The text and the bytes: properties. *)

\* The text with no space ahead of it and one space for every run of spaces.
RECURSIVE Squeeze(_)
Squeeze(string) ==
    IF string = <<>> THEN <<>>
    ELSE IF Head(string) = " " THEN <<" ">> \o Squeeze(SkipSpaces(string))
    ELSE <<Head(string)>> \o Squeeze(Tail(string))

Normalize(string) == Squeeze(SkipSpaces(string))

\* The text with the default mode written after every literal that has none.
RECURSIVE WithModes(_)
WithModes(string) ==
    IF string = <<>> THEN <<>>
    ELSE IF /\ Head(string) \in NumberTypes \cup {"true", "false"}
            /\ (Len(string) = 1 \/ string[2] # ".")
        THEN <<Head(string), ".", DefaultMode>> \o WithModes(Tail(string))
    ELSE <<Head(string)>> \o WithModes(Tail(string))

\* The text of the operation an instruction wraps.
OperationDisplay(instruction) ==
    IF Len(operands(instruction)) = 2
        THEN BinaryOperationDisplay(instruction.operation)
        ELSE UnaryOperationDisplay(instruction.operation)

\* C8: parsing the text an instruction displays gives the instruction back,
\* operands and destination in their order; the text displayed is the opcode
\* and the text of the wrapped operation, closed by the semicolon; and
\* displaying the instruction a text parses to gives the text back with its
\* spaces normalized and with the mode of every literal written, the default
\* mode where the text left it out.
TextRoundTrip ==
    [][ /\ (outcome.op = "to_string" /\ outcome'.op = "from_str")
            => (outcome'.res = "ok" /\ test' = test)
        /\ (outcome'.op = "to_string")
            => text' = <<opcode(test), " ">> \o OperationDisplay(test) \o <<";">>
        /\ (outcome.op = "from_str" /\ outcome'.op = "to_string")
            => text' = WithModes(Normalize(text))
      ]_vars

\* C8 as stated: displaying the instruction a text parses to gives the text
\* back up to its spaces and its terminator.
TextRoundTripUpToSpaces ==
    [][ (outcome.op = "from_str" /\ outcome'.op = "to_string")
            => Normalize(text') = Normalize(text)
      ]_vars

\* C8, reached: " commit.ped256  r0  1scalar  into  r2;" parsed and displayed
\* is "commit.ped256 r0 1scalar.private into r2;".
ScalarDisplayedWithMode ==
    /\ outcome = Ok("to_string", 0, NoValue)
    /\ test = CommitPed256(BinaryOperation(Register(0), Literal("scalar", DefaultMode, Number(1)), Register(2)))
    /\ text = <<"commit.ped256", " ", "r", "0", " ", "1", "scalar", ".", DefaultMode, " ", "into", " ",
                "r", "2", ";">>

\* The bytes of the operands of an instruction, one operand after the other.
RECURSIVE OperandsWriteLE(_)
OperandsWriteLE(list) ==
    IF list = <<>> THEN <<>> ELSE OperandWriteLE(Head(list)) \o OperandsWriteLE(Tail(list))

\* The bytes of an instruction: the discriminant of its opcode, its operands
\* in their order, its destination.
Encoding(instruction) ==
    NumberWriteLE(Discriminant(InstructionVariants, instruction.variant), 2)
    \o OperandsWriteLE(operands(instruction))
    \o NumberWriteLE(destination(instruction).locator, 8)

\* C9: the bytes written for an instruction are the discriminant of its
\* opcode, then its operands in their order, then its destination, each little
\* endian; reading them gives the instruction back and leaves the reader at
\* the first byte that follows them.
BinaryRoundTrip ==
    [][ /\ (outcome'.op = "write_le") => bytes' = Encoding(test) \o bytes
        /\ (outcome.op = "write_le" /\ outcome'.op = "read_le")
            => /\ outcome'.res = "ok"
               /\ test' = test
               /\ bytes = Encoding(test) \o bytes'
               /\ bytes' \in FollowingBytes
      ]_vars

\* C9, reached: commit.ped256 r258 25u8.private into r65536 was written ahead
\* of four bytes and read back, and the four bytes remain.
CommitReadBack ==
    /\ outcome = Ok("read_le", 0, NoValue)
    /\ test = CommitPed256(BinaryOperation(Register(258), Literal("u8", "private", Number(25)),
                                           Register(65536)))
    /\ bytes = <<0, 0, 1, 2>>

\* C10: a text led by "commit.ped256" parses to the CommitPed256 variant with
\* two operands and a text led by "hash.psd4" to the HashPsd4 variant with
\* one; the mnemonics of the variants differ; and a text led by a mnemonic of
\* no variant is a parse error that halts nothing.
OpcodeDispatch ==
    [][ (outcome.op = "text" /\ outcome'.op = "from_str")
            => LET mnemonic == Head(SkipSpaces(text))
               IN  /\ text \in CommitPed256Texts
                       => /\ outcome'.res = "ok"
                          /\ test'.variant = "CommitPed256"
                          /\ Len(operands(test')) = 2
                   /\ text \in HashPsd4Texts
                       => /\ outcome'.res = "ok"
                          /\ test'.variant = "HashPsd4"
                          /\ Len(operands(test')) = 1
                   /\ outcome'.res = "ok" => opcode(test') = mnemonic
                   /\ mnemonic \notin {"commit.ped256", "hash.psd4"}
                       => /\ outcome'.res = "error"
                          /\ test' = NoValue
                          /\ ~halted'
                   /\ Cardinality(Opcodes) = Len(InstructionVariants)
      ]_vars

\* C10, reached: "hash.psd2 r0 into r1;" was a parse error, and nothing halted.
UnknownOpcodeRejected ==
    /\ outcome = Err("from_str", 0, ParseErrorMessage)
    /\ text = <<"hash.psd2", " ", "r", "0", " ", "into", " ", "r", "1", ";">>
    /\ test = NoValue
    /\ ~halted

-----------------------------------------------------------------------------
(* ProgramID. *)

Letters ==
    {"a", "b", "c", "d", "e", "f", "g", "h", "i", "j", "k", "l", "m",
     "n", "o", "p", "q", "r", "s", "t", "u", "v", "w", "x", "y", "z"}

\* An identifier: a name, equal to another by its characters.
Identifier(string) == [identifier |-> string]

\* The characters of the identifier at the head of the text: letters, digits
\* and underscores.
RECURSIVE IdentifierLen(_)
IdentifierLen(string) ==
    IF string # <<>> /\ (Head(string) \in Letters \/ IsDigit(Head(string)) \/ Head(string) = "_")
        THEN 1 + IdentifierLen(Tail(string))
        ELSE 0

\* Identifier::parse: a letter, and the letters, digits and underscores that
\* follow it.
IdentifierParse(string) ==
    IF string # <<>> /\ Head(string) \in Letters
        THEN Parsed(Identifier(SubSeq(string, 1, IdentifierLen(string))),
                    SubSeq(string, IdentifierLen(string) + 1, Len(string)))
        ELSE ParseError(string)

\* Display for Identifier
IdentifierDisplay(id) == id.identifier

\* ProgramID { name, network }
ProgramID(name, network) == [name |-> name, network |-> network]

\* ProgramID::parse with the "." and the network made optional: a name alone
\* is a program ID of the network "aleo".
ProgramIDParseOptionalNetwork(string) ==
    LET AfterNetwork(name, network) ==
            IF network.ok THEN Parsed(ProgramID(name.value, network.value), network.rest)
            ELSE Parsed(ProgramID(name.value, Identifier(<<"a", "l", "e", "o">>)), name.rest)
        AfterDot(name, dot) ==
            IF dot.ok THEN AfterNetwork(name, IdentifierParse(dot.rest))
            ELSE Parsed(ProgramID(name.value, Identifier(<<"a", "l", "e", "o">>)), name.rest)
        AfterName(name) == AndThen(string, name, AfterDot(name, Tag(".", name.rest)))
    IN  AfterName(IdentifierParse(string))

\* ProgramID::parse: the name, "." and the network; what remains of the text
\* is returned with the program ID.
ProgramIDParse(string) ==
    LET AfterNetwork(name, network) ==
            AndThen(string, network, Parsed(ProgramID(name.value, network.value), network.rest))
        AfterDot(name, dot) == AndThen(string, dot, AfterNetwork(name, IdentifierParse(dot.rest)))
        AfterName(name) == AndThen(string, name, AfterDot(name, Tag(".", name.rest)))
    IN  AfterName(IdentifierParse(string))

\* ProgramID::from_str without the check of the remainder.
ProgramIDFromStrUnchecked(string) ==
    LET Checked(parsed) == AndThen(string, parsed, Parsed(parsed.value, <<>>))
    IN  Checked(ProgramIDParse(string))

\* ProgramID::from_str: the program ID, when nothing remains of the text.
ProgramIDFromStr(string) ==
    LET Checked(parsed) ==
            IF parsed.ok /\ parsed.rest = <<>> THEN Parsed(parsed.value, <<>>) ELSE ParseError(string)
    IN  Checked(ProgramIDParse(string))

\* Display with the name and the network in each other's place.
ProgramIDDisplaySwapped(id) == IdentifierDisplay(id.network) \o <<".">> \o IdentifierDisplay(id.name)

\* Display for ProgramID: "{name}.{network}"
ProgramIDDisplay(id) == IdentifierDisplay(id.name) \o <<".">> \o IdentifierDisplay(id.network)

\* Debug for ProgramID: Display::fmt(self, f)
ProgramIDDebug(id) == ProgramIDDisplay(id)

\* The texts a program ID is parsed from: a name or none, "." or none, a
\* network or none, and what follows them.
NameTexts == { <<"b", "a", "r">>, <<"f", "o", "o">>, <<"b", "_", "1">>, <<"1", "b">>, <<>> }

SeparatorTexts == { <<".">>, <<>>, <<" ">> }

NetworkTexts == { <<"a", "l", "e", "o">>, <<"x">>, <<"9">>, <<>> }

TrailingTexts == { <<>>, <<"!">>, <<" ">>, <<".", "y">>, <<".">> }

ProgramIDTexts ==
    { name \o separator \o network \o trailing :
        name \in NameTexts, separator \in SeparatorTexts, network \in NetworkTexts,
        trailing \in TrailingTexts }

\* What remains of a text after a parser.
Remainder(string) == [remainder |-> string]

\* A test takes a text in hand.
InitProgramID ==
    /\ registers = [n \in Locators |-> Undefined]
    /\ halted = FALSE
    /\ bytes = <<>>
    /\ test = NoValue
    /\ text \in ProgramIDTexts
    /\ outcome = Ok("text", 0, NoValue)

\* ProgramID::parse(text)
ParseProgramID ==
    /\ outcome.op = "text"
    /\ LET parsed == ProgramIDParse(text)
       IN  /\ test' = parsed.value
           /\ outcome' = IF parsed.ok THEN Ok("parse", 0, Remainder(parsed.rest))
                         ELSE Err("parse", 0, ParseErrorMessage)
    /\ UNCHANGED <<registers, halted, text, bytes>>

\* ProgramID::from_str(text)
ProgramIDFromText ==
    /\ outcome.op \in {"text", "to_string", "debug"}
    /\ LET parsed == ProgramIDFromStr(text)
       IN  /\ test' = parsed.value
           /\ outcome' = IF parsed.ok THEN Ok("from_str", 0, NoValue)
                         ELSE Err("from_str", 0, ParseErrorMessage)
    /\ UNCHANGED <<registers, halted, text, bytes>>

\* id.to_string()
DisplayProgramID ==
    /\ outcome.res = "ok"
    /\ outcome.op \in {"parse", "from_str"}
    /\ text' = ProgramIDDisplay(test)
    /\ outcome' = Ok("to_string", 0, NoValue)
    /\ UNCHANGED <<registers, halted, test, bytes>>

\* format!("{id:?}")
DebugProgramID ==
    /\ outcome.res = "ok"
    /\ outcome.op \in {"parse", "from_str"}
    /\ text' = ProgramIDDebug(test)
    /\ outcome' = Ok("debug", 0, NoValue)
    /\ UNCHANGED <<registers, halted, test, bytes>>

NextProgramID ==
    \/ ParseProgramID
    \/ ProgramIDFromText
    \/ DisplayProgramID
    \/ DebugProgramID

SpecProgramID == InitProgramID /\ [][NextProgramID]_vars

-----------------------------------------------------------------------------
(* ProgramID: properties. *)

\* Whether the text is all of one identifier.
IsIdentifierText(string) ==
    string # <<>> /\ Head(string) \in Letters /\ IdentifierLen(string) = Len(string)

\* Whether the text is a name, "." and a network, and characters after them
\* that are none of the network.
FormWithTrailing(string) ==
    \E name \in NameTexts, network \in NetworkTexts, trailing \in TrailingTexts :
        /\ IsIdentifierText(name)
        /\ IsIdentifierText(network)
        /\ trailing # <<>>
        /\ string = name \o <<".">> \o network \o trailing

\* C11: from_str fails whenever characters remain after the "{name}.{network}"
\* form; parse does not fail there: it returns the program ID of the form and
\* the characters that remain.
TrailingCharacters ==
    [][ (outcome.op = "text" /\ FormWithTrailing(text))
            => /\ outcome'.op = "from_str" => (outcome'.res = "error" /\ test' = NoValue)
               /\ outcome'.op = "parse"
                    => /\ outcome'.res = "ok"
                       /\ outcome'.val.remainder # <<>>
                       /\ text = test'.name.identifier \o <<".">> \o test'.network.identifier
                                 \o outcome'.val.remainder
      ]_vars

\* C11 as stated: parse and from_str both fail whenever characters remain
\* after the form.
TrailingCharactersRejected ==
    [][ (outcome.op = "text" /\ FormWithTrailing(text) /\ outcome'.op \in {"parse", "from_str"})
            => outcome'.res = "error"
      ]_vars

\* C11, reached: parse of "bar.aleo!" returned bar.aleo and the remainder "!".
ParsedWithRemainder ==
    /\ outcome = Ok("parse", 0, Remainder(<<"!">>))
    /\ text = <<"b", "a", "r", ".", "a", "l", "e", "o", "!">>
    /\ test = ProgramID(Identifier(<<"b", "a", "r">>), Identifier(<<"a", "l", "e", "o">>))

\* The place of the first "." of the text, or 0.
RECURSIVE FirstDot(_)
FirstDot(string) ==
    IF string = <<>> THEN 0
    ELSE IF Head(string) = "." THEN 1
    ELSE IF FirstDot(Tail(string)) = 0 THEN 0
    ELSE 1 + FirstDot(Tail(string))

\* C12: parse and from_str return an error, and halt nothing, when the text
\* has no "." or no identifier after it; when they succeed the name is the
\* identifier before the first "." and the network the identifier after it.
SeparatorAndNetwork ==
    [][ (outcome.op = "text" /\ outcome'.op \in {"parse", "from_str"})
            => LET dot == FirstDot(text)
                   after == SubSeq(text, dot + 1, Len(text))
               IN  /\ (dot = 0 \/ after = <<>> \/ Head(after) \notin Letters)
                        => (outcome'.res = "error" /\ test' = NoValue /\ ~halted')
                   /\ outcome'.res = "ok"
                        => /\ dot > 1
                           /\ test'.name = Identifier(SubSeq(text, 1, dot - 1))
                           /\ test'.network = Identifier(SubSeq(after, 1, IdentifierLen(after)))
      ]_vars

\* C12, reached: from_str of "foo." was an error.
NetworkMissing ==
    /\ outcome = Err("from_str", 0, ParseErrorMessage)
    /\ text = <<"f", "o", "o", ".">>
    /\ test = NoValue
    /\ ~halted

\* C13: the text from_str accepted is the text displayed, the program ID
\* displayed is the program ID from_str gives back, and Debug and Display both
\* print the name, "." and the network.
ProgramIDRoundTrip ==
    [][ /\ (outcome.op = "from_str" /\ outcome'.op \in {"to_string", "debug"}) => text' = text
        /\ (outcome.op \in {"to_string", "debug"} /\ outcome'.op = "from_str")
            => (outcome'.res = "ok" /\ test' = test)
        /\ (outcome'.op \in {"to_string", "debug"})
            => text' = test.name.identifier \o <<".">> \o test.network.identifier
      ]_vars

\* C13, reached: bar.aleo, parsed from "bar.aleo.y", is printed as "bar.aleo".
ProgramIDPrinted ==
    /\ outcome = Ok("debug", 0, NoValue)
    /\ text = <<"b", "a", "r", ".", "a", "l", "e", "o">>
    /\ test = ProgramID(Identifier(<<"b", "a", "r">>), Identifier(<<"a", "l", "e", "o">>))

-----------------------------------------------------------------------------
(* Value::find: a path of identifiers walked against a Plaintext or a Record. *)

\* The longest path walked.
MaxPathLen == 3

FieldNames == {"a", "b", "c"}

Visibilities == {"Constant", "Public", "Private"}

PlaintextLiteral(literal) == [variant |-> "Literal", literal |-> literal]

\* A named struct of named members, in declaration order.
PlaintextComposite(name, members) == [variant |-> "Composite", name |-> name, members |-> members]

Member(name, plaintext) == [name |-> name, plaintext |-> plaintext]

Entry(visibility, plaintext) == [visibility |-> visibility, plaintext |-> plaintext]

RecordEntry(name, entry) == [name |-> name, entry |-> entry]

Record(entries) == [entries |-> entries]

ValuePlaintext(plaintext) == [variant |-> "Plaintext", plaintext |-> plaintext]

ValueRecord(record) == [variant |-> "Record", record |-> record]

Found(value) == [ok |-> TRUE, value |-> value]

NotFound(error) == [ok |-> FALSE, error |-> error]

FieldNotFound(name) == <<"field not found", name>>

EmptyPath == <<"empty path">>

\* The places of the sequence that carry the name.
Named(sequence, name) == { i \in DOMAIN sequence : sequence[i].name = name }

FirstOf(places) == CHOOSE i \in places : \A j \in places : i <= j

\* Plaintext::find: each step matches a member of a Composite; a Literal is a
\* leaf; the empty path is the plaintext itself.
RECURSIVE PlaintextFind(_, _)
PlaintextFind(plaintext, path) ==
    IF path = <<>> THEN Found(plaintext)
    ELSE IF plaintext.variant = "Literal" THEN NotFound(FieldNotFound(Head(path)))
    ELSE IF Named(plaintext.members, Head(path)) = {} THEN NotFound(FieldNotFound(Head(path)))
    ELSE PlaintextFind(plaintext.members[FirstOf(Named(plaintext.members, Head(path)))].plaintext,
                       Tail(path))

\* Record::find: the first step matches an entry, the rest is walked in the
\* entry's plaintext; what is found is an Entry of the visibility of the
\* entry matched. There is no entry for no step.
RecordFind(record, path) ==
    IF path = <<>> THEN NotFound(EmptyPath)
    ELSE IF Named(record.entries, Head(path)) = {} THEN NotFound(FieldNotFound(Head(path)))
    ELSE LET InEntry(entry, found) ==
                 IF found.ok THEN Found(Entry(entry.visibility, found.value)) ELSE found
             At(entry) == InEntry(entry, PlaintextFind(entry.plaintext, Tail(path)))
         IN  At(record.entries[FirstOf(Named(record.entries, Head(path)))].entry)

\* Value::find with the visibility of the entry kept in what it returns.
ValueFindKeepingVisibility(value, path) ==
    IF value.variant = "Plaintext"
        THEN LET Wrap(found) == IF found.ok THEN Found(ValuePlaintext(found.value)) ELSE found
             IN  Wrap(PlaintextFind(value.plaintext, path))
        ELSE LET Extract(found) ==
                     IF found.ok
                         THEN Found([variant |-> "Plaintext", plaintext |-> found.value.plaintext,
                                     visibility |-> found.value.visibility])
                         ELSE found
             IN  Extract(RecordFind(value.record, path))

\* Value::find with a failed lookup answered by the value itself.
ValueFindOrSelf(value, path) ==
    IF value.variant = "Plaintext"
        THEN LET Wrap(found) == IF found.ok THEN Found(ValuePlaintext(found.value)) ELSE Found(value)
             IN  Wrap(PlaintextFind(value.plaintext, path))
        ELSE LET Extract(found) ==
                     IF found.ok THEN Found(ValuePlaintext(found.value.plaintext)) ELSE Found(value)
             IN  Extract(RecordFind(value.record, path))

\* Value::find.
ValueFind(value, path) ==
    IF value.variant = "Plaintext"
        THEN LET Wrap(found) == IF found.ok THEN Found(ValuePlaintext(found.value)) ELSE found
             IN  Wrap(PlaintextFind(value.plaintext, path))
        ELSE LET Extract(found) ==
                     IF found.ok THEN Found(ValuePlaintext(found.value.plaintext)) ELSE found
             IN  Extract(RecordFind(value.record, path))

OneField == PlaintextLiteral(Literal("field", "public", Number(1)))

TwoU8 == PlaintextLiteral(Literal("u8", "private", Number(2)))

Inner == PlaintextComposite("inner", << Member("a", OneField), Member("b", TwoU8) >>)

Outer == PlaintextComposite("outer", << Member("a", TwoU8), Member("c", Inner) >>)

FindPlaintexts == { OneField, Inner, Outer }

FindRecords ==
    { Record(<< RecordEntry("a", Entry(first, OneField)), RecordEntry("b", Entry(second, Outer)) >>) :
        first \in Visibilities, second \in Visibilities }

FindValues ==
    { ValuePlaintext(plaintext) : plaintext \in FindPlaintexts }
        \cup { ValueRecord(record) : record \in FindRecords }

\* A value in hand and no step of the path yet.
InitFind ==
    /\ registers = [n \in Locators |-> Undefined]
    /\ halted = FALSE
    /\ bytes = <<>>
    /\ test \in FindValues
    /\ text = <<>>
    /\ outcome = Ok("path", 0, NoValue)

\* One more step at the end of the path.
ExtendPath ==
    /\ outcome.op = "path"
    /\ Len(text) < MaxPathLen
    /\ \E name \in FieldNames : text' = Append(text, name)
    /\ UNCHANGED <<registers, halted, outcome, test, bytes>>

\* value.find(path)
FindValue ==
    /\ outcome.op = "path"
    /\ LET Return(found) ==
               IF found.ok THEN Ok("find", 0, found.value) ELSE Err("find", 0, found.error)
       IN  outcome' = Return(ValueFind(test, text))
    /\ UNCHANGED <<registers, halted, test, text, bytes>>

NextFind == ExtendPath \/ FindValue

SpecFind == InitFind /\ [][NextFind]_vars

\* C14: find with the empty path returns the value it was given, a Plaintext
\* as well as a Record.
EmptyPathReturnsInput ==
    [][ (outcome'.op = "find" /\ text = <<>>)
            => (outcome'.res = "ok" /\ outcome'.val = test)
      ]_vars

\* Whether two values are records of the same entries up to their visibility.
SameButVisibility(value, other) ==
    /\ value.variant = "Record"
    /\ other.variant = "Record"
    /\ Len(value.record.entries) = Len(other.record.entries)
    /\ \A i \in DOMAIN value.record.entries :
        /\ value.record.entries[i].name = other.record.entries[i].name
        /\ value.record.entries[i].entry.plaintext = other.record.entries[i].entry.plaintext

\* C15: on a Record and a path of steps, the first step is matched against the
\* entries and the rest is walked in the plaintext of the entry matched; what
\* is found is returned as a Value::Plaintext that carries nothing of the
\* entry's visibility; and find returns on every path the same for two Records
\* that differ only in the visibility of their entries.
RecordUnwrapped ==
    [][ (outcome'.op = "find" /\ test.variant = "Record")
            => /\ text # <<>> =>
                    LET places == Named(test.record.entries, Head(text))
                        inner == PlaintextFind(test.record.entries[FirstOf(places)].entry.plaintext,
                                               Tail(text))
                    IN  IF places = {} THEN outcome'.res = "error"
                        ELSE IF inner.ok
                            THEN outcome' = Ok("find", 0, ValuePlaintext(inner.value))
                            ELSE outcome'.res = "error"
               /\ \A other \in FindValues :
                    SameButVisibility(test, other)
                        => LET again == ValueFind(other, text)
                           IN  /\ again.ok = (outcome'.res = "ok")
                               /\ again.ok => again.value = outcome'.val
                               /\ ~again.ok => again.error = outcome'.msg
      ]_vars

\* C15, reached: b.c.a of a Record whose entry b is Private is the plaintext 1field.
EntryUnwrapped ==
    /\ outcome = Ok("find", 0, ValuePlaintext(OneField))
    /\ text = <<"b", "c", "a">>
    /\ test = ValueRecord(Record(<< RecordEntry("a", Entry("Constant", OneField)),
                                    RecordEntry("b", Entry("Private", Outer)) >>))

\* Whether a step of the path names no member or descends into a Literal.
RECURSIVE Missing(_, _)
Missing(plaintext, path) ==
    /\ path # <<>>
    /\ \/ plaintext.variant = "Literal"
       \/ \A i \in DOMAIN plaintext.members :
            plaintext.members[i].name = Head(path) => Missing(plaintext.members[i].plaintext, Tail(path))

MissingInValue(value, path) ==
    IF value.variant = "Plaintext" THEN Missing(value.plaintext, path)
    ELSE /\ path # <<>>
         /\ \A i \in DOMAIN value.record.entries :
              value.record.entries[i].name = Head(path)
                  => Missing(value.record.entries[i].entry.plaintext, Tail(path))

\* C16: find returns an error, halts nothing and returns no value when a step
\* names no field or descends into a Literal; the error is the one of the
\* lookup of the Plaintext or of the Record, as it is.
FindFails ==
    [][ outcome'.op = "find"
            => /\ MissingInValue(test, text)
                    => (outcome'.res = "error" /\ outcome'.val = NoValue /\ ~halted')
               /\ (test.variant = "Plaintext" /\ ~PlaintextFind(test.plaintext, text).ok)
                    => outcome' = Err("find", 0, PlaintextFind(test.plaintext, text).error)
               /\ (test.variant = "Record" /\ ~RecordFind(test.record, text).ok)
                    => outcome' = Err("find", 0, RecordFind(test.record, text).error)
      ]_vars

\* C16, reached: a.a of outer descends into the literal at a.
DescentIntoLiteral ==
    /\ outcome = Err("find", 0, FieldNotFound("a"))
    /\ text = <<"a", "a">>
    /\ test = ValuePlaintext(Outer)
    /\ ~halted

-----------------------------------------------------------------------------
(* Integer::from_field: an integer cast to a base field element and back. *)

IsSigned(type) == type \in {"i8", "i16", "i32", "i64", "i128"}

\* Integer::new(mode, x): the I::BITS bits of x, little endian.
IntegerNew(type, mode, x) ==
    [type |-> type, mode |-> mode, bits_le |-> [i \in 1 .. IntegerBits(type) |-> BitOf(x, i - 1)]]

\* integer.to_field(): the field element of the integer's bits, zero above them.
IntegerToField(integer) ==
    [mode |-> integer.mode,
     bits_le |-> [i \in 1 .. FieldSizeInBits |->
                    IF i <= Len(integer.bits_le) THEN integer.bits_le[i] ELSE FALSE]]

\* field.to_lower_bits_le(k)
ToLowerBitsLE(field, k) == SubSeq(field.bits_le, 1, k)

\* from_field with a carry bit extracted after the integer's bits.
IntegerFromFieldWithCarry(type, field) ==
    [type |-> type, mode |-> field.mode, bits_le |-> ToLowerBitsLE(field, IntegerBits(type) + 1)]

\* Integer::from_field
IntegerFromField(type, field) ==
    [type |-> type, mode |-> field.mode, bits_le |-> ToLowerBitsLE(field, IntegerBits(type))]

RECURSIVE BitsValue(_)
BitsValue(bits) ==
    IF bits = <<>> THEN 0 ELSE (IF Head(bits) THEN 1 ELSE 0) + 2 * BitsValue(Tail(bits))

\* integer.eject_value(), for the values sampled: the bits above SampleBits
\* repeat the sign.
EjectValue(integer) ==
    LET low == IF Len(integer.bits_le) < SampleBits THEN Len(integer.bits_le) ELSE SampleBits
    IN  BitsValue(SubSeq(integer.bits_le, 1, low))
            - (IF IsSigned(integer.type) /\ integer.bits_le[Len(integer.bits_le)] THEN 2 ^ low ELSE 0)

\* Every value of the 8-bit types; the ends and the middle of the range of
\* the 16-bit types and of the sampled range of the wider ones.
IntegerSamples(type) ==
    CASE type = "u8"  -> 0 .. 255
      [] type = "i8"  -> -128 .. 127
      [] type = "u16" -> {0, 1, 255, 256, 65535}
      [] type = "i16" -> {-32768, -129, -1, 0, 1, 32767}
      [] OTHER -> IF IsSigned(type)
                      THEN {-(2 ^ SampleBits), -65537, -1, 0, 1, 2 ^ SampleBits - 1}
                      ELSE {0, 1, 65536, 2 ^ SampleBits - 1}

\* check_from_field::<I>(mode): a mode, a type and an expected value.
InitFromField ==
    /\ registers = [n \in Locators |-> Undefined]
    /\ halted = FALSE
    /\ bytes = <<>>
    /\ test = NoValue
    /\ \E type \in IntegerTypes, mode \in Modes :
        /\ text = <<mode, type>>
        /\ \E expected \in IntegerSamples(type) : outcome = Ok("sample", 0, Number(expected))

\* Integer::new(mode, expected)
NewInteger ==
    /\ outcome.op = "sample"
    /\ test' = IntegerNew(text[2], text[1], outcome.val.number)
    /\ outcome' = Ok("new", 0, outcome.val)
    /\ UNCHANGED <<registers, halted, text, bytes>>

\* integer.to_field()
ToField ==
    /\ outcome.op \in {"new", "from_field"}
    /\ bytes' = IntegerToField(test)
    /\ outcome' = Ok("to_field", 0, outcome.val)
    /\ UNCHANGED <<registers, halted, test, text>>

\* Integer::from_field(field)
FromField ==
    /\ outcome.op = "to_field"
    /\ test' = IntegerFromField(text[2], bytes)
    /\ outcome' = Ok("from_field", 0, outcome.val)
    /\ UNCHANGED <<registers, halted, text, bytes>>

NextFromField == NewInteger \/ ToField \/ FromField

SpecFromField == InitFromField /\ [][NextFromField]_vars

\* C17: for each of the ten integer types, each mode and each value x, the
\* integer from_field makes of the field of Integer::new(mode, x) has the
\* value x; its bits are the I::BITS low bits of the field, little endian,
\* and no bit more.
FieldRoundTrip ==
    [][ outcome'.op = "from_field"
            => /\ EjectValue(test') = outcome'.val.number
               /\ test'.bits_le = IntegerNew(text[2], text[1], outcome'.val.number).bits_le
               /\ Len(test'.bits_le) = IntegerBits(text[2])
               /\ \A i \in 1 .. IntegerBits(text[2]) : test'.bits_le[i] = bytes.bits_le[i]
      ]_vars

\* C17, reached: -1i128 in private mode came back from its field.
MinusOneCameBack ==
    /\ outcome = Ok("from_field", 0, Number(-1))
    /\ text = <<"private", "i128">>
    /\ test.bits_le = [i \in 1 .. 128 |-> TRUE]
    /\ EjectValue(test) = -1

-----------------------------------------------------------------------------
(* A Composite operand: evaluated and serialized. *)

\* The most leaves of a Composite.
MaxLeaves == 3

\* The leaves Composites are made of: those of the tests, and leaves that
\* flatten alike.
CompositeLeaves ==
    { Literal("field", "public", Number(1)), Literal("field", "private", Number(2)),
      Literal("boolean", "public", Number(1)), Literal("boolean", "private", Number(0)),
      Literal("u8", "private", Number(1)), Literal("u8", "constant", Number(0)),
      Literal("u16", "constant", Number(0)) }

\* Value::Composite("message", leaves), the leaves all different.
CompositeValues ==
    UNION { { Composite("message", literals) :
                literals \in { list \in [1 .. n -> CompositeLeaves] :
                                 \A i, j \in 1 .. n : list[i] = list[j] => i = j } } :
            n \in 2 .. MaxLeaves }

CompositeInstructions ==
    { CommitPed256(BinaryOperation(Register(0), Register(1), Register(2))),
      HashPsd4(UnaryOperation(Register(0), Register(2))) }

\* "message" as bytes.
MessageBytes == <<109, 101, 115, 115, 97, 103, 101>>

\* An identifier is its length, a u8, and its bytes.
IdentifierWriteLE(name) == IF name = "message" THEN <<Len(MessageBytes)>> \o MessageBytes ELSE <<0>>

IdentifierReadLE(string) ==
    IF string = <<>> \/ Len(string) < 1 + Head(string) THEN ParseError(string)
    ELSE IF SubSeq(string, 2, 1 + Head(string)) = MessageBytes
        THEN Parsed("message", SubSeq(string, 2 + Head(string), Len(string)))
        ELSE ParseError(string)

RECURSIVE LiteralsWriteLE(_)
LiteralsWriteLE(literals) ==
    IF literals = <<>> THEN <<>> ELSE LiteralWriteLE(Head(literals)) \o LiteralsWriteLE(Tail(literals))

\* The literals read one after the other, as many as were counted.
RECURSIVE LiteralsReadLE(_, _, _)
LiteralsReadLE(string, count, literals) ==
    IF count = 0 THEN Parsed(literals, string)
    ELSE LET AfterLiteral(literal) ==
                 IF literal.ok THEN LiteralsReadLE(literal.rest, count - 1, Append(literals, literal.value))
                 ELSE ParseError(string)
         IN  AfterLiteral(LiteralReadLE(string))

\* A value is a byte that tells a literal, 0, from a composite, 1; a composite
\* is its name, the number of its literals, a u16, and its literals in order.
ValueWriteLE(value) ==
    IF value.kind = "literal" THEN <<0>> \o LiteralWriteLE(value)
    ELSE <<1>> \o IdentifierWriteLE(value.name) \o NumberWriteLE(Len(value.literals), 2)
             \o LiteralsWriteLE(value.literals)

ValueReadLE(string) ==
    LET AfterLiterals(name, literals) ==
            AndThen(string, literals, Parsed(Composite(name.value, literals.value), literals.rest))
        AfterCount(name, count) ==
            AndThen(string, count,
                    AfterLiterals(name, LiteralsReadLE(count.rest, count.value.number, <<>>)))
        AfterName(name) == AndThen(string, name, AfterCount(name, NumberReadLE(name.rest, 2)))
    IN  IF string = <<>> THEN ParseError(string)
        ELSE IF Head(string) = 0 THEN LiteralReadLE(Tail(string))
        ELSE IF Head(string) = 1 THEN AfterName(IdentifierReadLE(Tail(string)))
        ELSE ParseError(string)

\* The frame of test_composite: the composite in r0, 1scalar in r1, r2 defined.
InitComposite ==
    /\ \E first \in CompositeValues :
          registers = [n \in Locators |->
                         CASE n = 0 -> [defined |-> TRUE, value |-> first]
                           [] n = 1 -> [defined |-> TRUE, value |-> OneScalar]
                           [] n = 2 -> [defined |-> TRUE, value |-> NoValue]
                           [] OTHER -> Undefined]
    /\ halted = FALSE
    /\ outcome = Ok("assign", 1, NoValue)
    /\ test \in CompositeInstructions
    /\ text = <<>>
    /\ bytes = <<>>

\* The instruction is evaluated.
EvaluateComposite ==
    /\ outcome.op \in {"assign", "read_le"}
    /\ Evaluate(test)
    /\ UNCHANGED <<test, text, bytes>>

\* The operand is written.
WriteValue ==
    /\ ~halted
    /\ outcome.op \in {"assign", "evaluate"}
    /\ bytes' = ValueWriteLE(registers[0].value)
    /\ outcome' = Ok("write_le", 0, NoValue)
    /\ UNCHANGED <<registers, halted, test, text>>

\* The operand is read back.
ReadValue ==
    /\ outcome.op = "write_le"
    /\ LET Return(read) ==
               /\ outcome' = IF read.ok THEN Ok("read_le", 0, read.value)
                             ELSE Err("read_le", 0, ReadErrorMessage)
               /\ bytes' = read.rest
       IN  Return(ValueReadLE(bytes))
    /\ UNCHANGED <<registers, halted, test, text>>

NextComposite == EvaluateComposite \/ WriteValue \/ ReadValue

SpecComposite == InitComposite /\ [][NextComposite]_vars

\* What a leaf presents to the primitive of the instruction.
Flattening(instruction, literal) ==
    IF instruction.variant = "CommitPed256" THEN ToBitsLE(literal) ELSE ToFields(literal)

RECURSIVE Concatenation(_)
Concatenation(sequences) ==
    IF sequences = <<>> THEN <<>> ELSE Head(sequences) \o Concatenation(Tail(sequences))

\* The flattenings of the leaves of a value in declared order, concatenated.
InDeclaredOrder(instruction, value) ==
    Concatenation([j \in DOMAIN value.literals |-> Flattening(instruction, value.literals[j])])

\* Whether the second composite has the leaves of the first in another order.
Reordered(value, other) ==
    /\ other.name = value.name
    /\ Len(other.literals) = Len(value.literals)
    /\ { other.literals[j] : j \in DOMAIN other.literals }
         = { value.literals[j] : j \in DOMAIN value.literals }
    /\ other.literals # value.literals

\* Whether the leaves at some place flatten differently, those at every place
\* flattening to as much.
FlattenDifferently(instruction, value, other) ==
    /\ \A j \in DOMAIN value.literals :
         Len(Flattening(instruction, value.literals[j])) = Len(Flattening(instruction, other.literals[j]))
    /\ \E j \in DOMAIN value.literals :
         Flattening(instruction, value.literals[j]) # Flattening(instruction, other.literals[j])

\* The input of the primitive is the concatenation of the flattenings of the
\* leaves in declared order, and evaluation, writing and reading keep the
\* leaves in that order.
OrderKept ==
    /\ (outcome'.op = "evaluate" /\ outcome'.res = "ok")
        => /\ registers'[2].value.val.input = InDeclaredOrder(test, registers[0].value)
           /\ registers'[0] = registers[0]
    /\ outcome'.op = "write_le"
        => /\ bytes' = <<1>> \o IdentifierWriteLE(registers[0].value.name)
                        \o NumberWriteLE(Len(registers[0].value.literals), 2)
                        \o Concatenation([j \in DOMAIN registers[0].value.literals |->
                                            LiteralWriteLE(registers[0].value.literals[j])])
           /\ registers' = registers
    /\ outcome'.op = "read_le"
        => (outcome' = Ok("read_le", 0, registers[0].value) /\ registers' = registers)

\* C18: a Composite operand is flattened leaf by leaf in declared order and
\* the input of the primitive is the concatenation of the flattenings in that
\* order; evaluation and serialization never change the order; and two
\* Composites of the same leaves in a different order present different
\* inputs when the leaves at some place flatten differently and those at every
\* place flatten to as much.
DeclarationOrder ==
    [][ /\ OrderKept
        /\ (outcome'.op = "evaluate" /\ outcome'.res = "ok")
            => \A other \in CompositeValues :
                 (Reordered(registers[0].value, other) /\ FlattenDifferently(test, registers[0].value, other))
                    => InDeclaredOrder(test, other) # registers'[2].value.val.input
      ]_vars

\* C18 as stated: two Composites of the same leaves in a different order
\* present different inputs.
DeclarationOrderDistinguishes ==
    [][ /\ OrderKept
        /\ (outcome'.op = "evaluate" /\ outcome'.res = "ok")
            => \A other \in CompositeValues :
                 Reordered(registers[0].value, other)
                    => InDeclaredOrder(test, other) # registers'[2].value.val.input
      ]_vars

\* C18, reached: the hash of message(1field.public, 2field.private) is the
\* hash of the fields 1, 2, and the message was read back as it is.
MessageHashedInOrder ==
    /\ outcome = Ok("read_le", 0, MessageOfFields)
    /\ registers[0].value = MessageOfFields
    /\ registers[2].value = Literal("field", "private", PoseidonHash(<<Number(1), Number(2)>>))

-----------------------------------------------------------------------------
(* The effect of evaluate on the frame. *)

\* C19: an evaluate that succeeds assigns its output to its destination, which
\* was defined and held no value, and leaves every other register, the
\* operands among them, as it was; an evaluate whose destination holds a value
\* leaves it, and the whole store, as it was.
FrameEffect ==
    [][ outcome'.op = "evaluate"
            => /\ outcome'.res = "ok"
                    => /\ IsDefined(registers, outcome'.locator)
                       /\ ~IsAssigned(registers, outcome'.locator)
                       /\ IsDefined(registers', outcome'.locator)
                       /\ IsAssigned(registers', outcome'.locator)
                       /\ \A n \in Locators \ {outcome'.locator} : registers'[n] = registers[n]
               /\ IsAssigned(registers, outcome'.locator)
                    => (outcome'.res # "ok" /\ registers' = registers)
      ]_vars

\* C19, reached: commit.ped256 r0 r1 into r2 assigned a group to r2 and left
\* 1scalar in r0 and in r1.
OutputAssigned ==
    /\ outcome = Ok("evaluate", 2, NoValue)
    /\ registers[0].value = OneScalar
    /\ registers[1].value = OneScalar
    /\ registers[2].defined
    /\ registers[2].value # NoValue
    /\ registers[2].value.type = "group"

-----------------------------------------------------------------------------
(* hash.psd4 over literals of every numeric type. *)

\* The types hash.psd4 takes a number of.
NumericTypes == {"field", "scalar"} \cup IntegerTypes

\* The numbers hashed.
HashNumbers == {0, 1, 2}

HashLiterals ==
    { Literal(type, mode, Number(n)) : type \in NumericTypes, mode \in Modes, n \in HashNumbers }

HashLeaves ==
    { Literal(type, mode, Number(n)) :
        type \in {"field", "u8", "i64"}, mode \in {"public", "private"}, n \in {1, 2} }

\* The operands hashed: a literal, or a composite of two leaves.
HashOperands ==
    HashLiterals
        \cup { Composite("message", <<first, second>>) : first \in HashLeaves, second \in HashLeaves }

\* The frame of the tests of hash.psd4: the operand in r0, r1 and r2 defined.
InitHash ==
    /\ \E first \in HashOperands :
          registers = [n \in Locators |->
                         CASE n = 0 -> [defined |-> TRUE, value |-> first]
                           [] n \in {1, 2} -> [defined |-> TRUE, value |-> NoValue]
                           [] OTHER -> Undefined]
    /\ halted = FALSE
    /\ outcome = Ok("assign", 0, NoValue)
    /\ test = NoValue
    /\ text = <<>>
    /\ bytes = <<>>

\* HashPsd4::from_str("r0 into rd").evaluate(&registers)
HashInto(d) ==
    /\ ~IsAssigned(registers, d)
    /\ Evaluate(HashPsd4(UnaryOperation(Register(0), Register(d))))
    /\ UNCHANGED <<test, text, bytes>>

NextHash == \E d \in {1, 2} : HashInto(d)

SpecHash == InitHash /\ [][NextHash]_vars

-----------------------------------------------------------------------------
(* The transaction kernels: TransactionAuthorization, TransactionKernel and
   ExecutionKernel, written to bytes and to hexadecimal text and read back.
   The components are byte strings of the size of their type. *)

NUM_INPUT_RECORDS == 2

NUM_OUTPUT_RECORDS == 2

\* The bytes a component of the type is written in (scaled down).
ElementSize(type) ==
    CASE type \in {"serial_number", "signature", "record", "encrypted_record"} -> 2
      [] OTHER -> 1

\* item.write_le for every item of the vector, in order: no length is written.
VecWriteLE(vector) == Concatenation(vector)

\* FromBytes::read_le of one component.
ReadElement(string, type) ==
    IF Len(string) >= ElementSize(type)
        THEN Parsed(SubSeq(string, 1, ElementSize(type)),
                    SubSeq(string, ElementSize(type) + 1, Len(string)))
        ELSE ParseError(string)

\* for _ in 0..count { vector.push(FromBytes::read_le(&mut reader)?) }
RECURSIVE ReadElements(_, _, _, _)
ReadElements(string, type, count, vector) ==
    IF count = 0 THEN Parsed(vector, string)
    ELSE LET AfterElement(element) ==
                 IF element.ok
                     THEN ReadElements(element.rest, type, count - 1, Append(vector, element.value))
                     ELSE ParseError(string)
         IN  AfterElement(ReadElement(string, type))

TransactionAuthorization(network_id, serial_numbers, commitments, value_balance, memo, signatures) ==
    [kind |-> "TransactionAuthorization", network_id |-> network_id,
     serial_numbers |-> serial_numbers, commitments |-> commitments,
     value_balance |-> value_balance, memo |-> memo, signatures |-> signatures]

TransactionKernel(authorized, old_records, new_records, local_data) ==
    [kind |-> "TransactionKernel", authorized |-> authorized, old_records |-> old_records,
     new_records |-> new_records, local_data |-> local_data]

ExecutionKernel(new_records_encryption_randomness, new_encrypted_records, program_commitment, program_randomness) ==
    [kind |-> "ExecutionKernel",
     new_records_encryption_randomness |-> new_records_encryption_randomness,
     new_encrypted_records |-> new_encrypted_records,
     program_commitment |-> program_commitment, program_randomness |-> program_randomness]

\* TransactionAuthorization::write_le
TransactionAuthorizationWriteLE(authorization) ==
    authorization.network_id
        \o VecWriteLE(authorization.serial_numbers)
        \o VecWriteLE(authorization.commitments)
        \o authorization.value_balance
        \o authorization.memo
        \o VecWriteLE(authorization.signatures)

\* TransactionAuthorization::read_le
TransactionAuthorizationReadLE(string) ==
    LET AfterSignatures(network_id, serial_numbers, commitments, value_balance, memo, signatures) ==
            AndThen(string, signatures,
                    Parsed(TransactionAuthorization(network_id.value, serial_numbers.value,
                                                    commitments.value, value_balance.value,
                                                    memo.value, signatures.value),
                           signatures.rest))
        AfterMemo(network_id, serial_numbers, commitments, value_balance, memo) ==
            AndThen(string, memo,
                    AfterSignatures(network_id, serial_numbers, commitments, value_balance, memo,
                                    ReadElements(memo.rest, "signature", NUM_INPUT_RECORDS, <<>>)))
        AfterValueBalance(network_id, serial_numbers, commitments, value_balance) ==
            AndThen(string, value_balance,
                    AfterMemo(network_id, serial_numbers, commitments, value_balance,
                              ReadElement(value_balance.rest, "memo")))
        AfterCommitments(network_id, serial_numbers, commitments) ==
            AndThen(string, commitments,
                    AfterValueBalance(network_id, serial_numbers, commitments,
                                      ReadElement(commitments.rest, "value_balance")))
        AfterSerialNumbers(network_id, serial_numbers) ==
            AndThen(string, serial_numbers,
                    AfterCommitments(network_id, serial_numbers,
                                     ReadElements(serial_numbers.rest, "commitment",
                                                  NUM_OUTPUT_RECORDS, <<>>)))
        AfterNetworkID(network_id) ==
            AndThen(string, network_id,
                    AfterSerialNumbers(network_id,
                                       ReadElements(network_id.rest, "serial_number",
                                                    NUM_INPUT_RECORDS, <<>>)))
    IN  AfterNetworkID(ReadElement(string, "network_id"))

\* TransactionKernel::write_le
TransactionKernelWriteLE(kernel) ==
    TransactionAuthorizationWriteLE(kernel.authorized)
        \o VecWriteLE(kernel.old_records)
        \o VecWriteLE(kernel.new_records)
        \o kernel.local_data

\* TransactionKernel::read_le reading the new records ahead of the old ones.
TransactionKernelReadLENewFirst(string) ==
    LET AfterLocalData(authorized, new_records, old_records, local_data) ==
            AndThen(string, local_data,
                    Parsed(TransactionKernel(authorized.value, old_records.value, new_records.value,
                                             local_data.value),
                           local_data.rest))
        AfterOldRecords(authorized, new_records, old_records) ==
            AndThen(string, old_records,
                    AfterLocalData(authorized, new_records, old_records,
                                   ReadElement(old_records.rest, "local_data")))
        AfterNewRecords(authorized, new_records) ==
            AndThen(string, new_records,
                    AfterOldRecords(authorized, new_records,
                                    ReadElements(new_records.rest, "record", NUM_INPUT_RECORDS, <<>>)))
        AfterAuthorized(authorized) ==
            AndThen(string, authorized,
                    AfterNewRecords(authorized,
                                    ReadElements(authorized.rest, "record", NUM_OUTPUT_RECORDS, <<>>)))
    IN  AfterAuthorized(TransactionAuthorizationReadLE(string))

\* TransactionKernel::read_le
TransactionKernelReadLE(string) ==
    LET AfterLocalData(authorized, old_records, new_records, local_data) ==
            AndThen(string, local_data,
                    Parsed(TransactionKernel(authorized.value, old_records.value, new_records.value,
                                             local_data.value),
                           local_data.rest))
        AfterNewRecords(authorized, old_records, new_records) ==
            AndThen(string, new_records,
                    AfterLocalData(authorized, old_records, new_records,
                                   ReadElement(new_records.rest, "local_data")))
        AfterOldRecords(authorized, old_records) ==
            AndThen(string, old_records,
                    AfterNewRecords(authorized, old_records,
                                    ReadElements(old_records.rest, "record", NUM_OUTPUT_RECORDS, <<>>)))
        AfterAuthorized(authorized) ==
            AndThen(string, authorized,
                    AfterOldRecords(authorized,
                                    ReadElements(authorized.rest, "record", NUM_INPUT_RECORDS, <<>>)))
    IN  AfterAuthorized(TransactionAuthorizationReadLE(string))

\* ExecutionKernel::write_le
ExecutionKernelWriteLE(kernel) ==
    VecWriteLE(kernel.new_records_encryption_randomness)
        \o VecWriteLE(kernel.new_encrypted_records)
        \o kernel.program_commitment
        \o kernel.program_randomness

\* ExecutionKernel::read_le
ExecutionKernelReadLE(string) ==
    LET AfterProgramRandomness(randomness, encrypted_records, program_commitment, program_randomness) ==
            AndThen(string, program_randomness,
                    Parsed(ExecutionKernel(randomness.value, encrypted_records.value,
                                           program_commitment.value, program_randomness.value),
                           program_randomness.rest))
        AfterProgramCommitment(randomness, encrypted_records, program_commitment) ==
            AndThen(string, program_commitment,
                    AfterProgramRandomness(randomness, encrypted_records, program_commitment,
                                           ReadElement(program_commitment.rest, "program_randomness")))
        AfterEncryptedRecords(randomness, encrypted_records) ==
            AndThen(string, encrypted_records,
                    AfterProgramCommitment(randomness, encrypted_records,
                                           ReadElement(encrypted_records.rest, "program_commitment")))
        AfterRandomness(randomness) ==
            AndThen(string, randomness,
                    AfterEncryptedRecords(randomness,
                                          ReadElements(randomness.rest, "encrypted_record",
                                                       NUM_OUTPUT_RECORDS, <<>>)))
    IN  AfterRandomness(ReadElements(string, "encryption_randomness", NUM_OUTPUT_RECORDS, <<>>))

\* write_le and read_le of the kernel of the kind.
KernelWriteLE(kernel) ==
    CASE kernel.kind = "TransactionAuthorization" -> TransactionAuthorizationWriteLE(kernel)
      [] kernel.kind = "TransactionKernel" -> TransactionKernelWriteLE(kernel)
      [] kernel.kind = "ExecutionKernel" -> ExecutionKernelWriteLE(kernel)

KernelReadLE(kind, string) ==
    CASE kind = "TransactionAuthorization" -> TransactionAuthorizationReadLE(string)
      [] kind = "TransactionKernel" -> TransactionKernelReadLE(string)
      [] kind = "ExecutionKernel" -> ExecutionKernelReadLE(string)

HexDigits == <<"0", "1", "2", "3", "4", "5", "6", "7", "8", "9", "a", "b", "c", "d", "e", "f">>

HexDigitsUpper == <<"0", "1", "2", "3", "4", "5", "6", "7", "8", "9", "A", "B", "C", "D", "E", "F">>

IsHexDigit(symbol) ==
    \E k \in DOMAIN HexDigits : HexDigits[k] = symbol \/ HexDigitsUpper[k] = symbol

HexValue(symbol) ==
    (CHOOSE k \in DOMAIN HexDigits : HexDigits[k] = symbol \/ HexDigitsUpper[k] = symbol) - 1

\* hex::encode: two digits a byte, the high one first, in lower case.
HexEncode(string) ==
    Concatenation([i \in DOMAIN string |->
                     << HexDigits[(string[i] \div 16) + 1], HexDigits[(string[i] % 16) + 1] >>])

\* hex::decode: an error on an odd length or on a symbol that is no digit.
HexDecode(string) ==
    IF Len(string) % 2 = 1 \/ \E i \in DOMAIN string : ~IsHexDigit(string[i])
        THEN ParseError(string)
        ELSE Parsed([i \in 1 .. (Len(string) \div 2) |->
                        16 * HexValue(string[2 * i - 1]) + HexValue(string[2 * i])], <<>>)

\* Display of a kernel: hex::encode(to_bytes_le![self])
KernelDisplay(kernel) == HexEncode(KernelWriteLE(kernel))

\* from_str of a kernel: Self::read_le(&hex::decode(kernel)?[..])
KernelFromStr(kind, string) ==
    LET Decoded(decoded) == AndThen(string, decoded, KernelReadLE(kind, decoded.value))
    IN  Decoded(HexDecode(string))

\* The kinds of kernel that have from_str and Display.
DisplayedKinds == {"TransactionKernel", "ExecutionKernel"}

\* Vectors of one element fewer than count to one more, of the two elements in turn.
SampleVectors(first, second, count) ==
    { [i \in 1 .. n |-> IF (i + shift) % 2 = 0 THEN first ELSE second] :
        n \in (count - 1) .. (count + 1), shift \in {0, 1} }

AuthorizationSamples ==
    { TransactionAuthorization(<<1>>, serial_numbers, commitments, <<30>>, <<40>>, signatures) :
        serial_numbers \in SampleVectors(<<10, 11>>, <<12, 13>>, NUM_INPUT_RECORDS),
        commitments \in SampleVectors(<<20>>, <<21>>, NUM_OUTPUT_RECORDS),
        signatures \in SampleVectors(<<50, 51>>, <<52, 53>>, NUM_INPUT_RECORDS) }

\* The authorizations inside the kernels sampled: the serial numbers in two
\* orders, and one serial number short.
KernelAuthorizations ==
    { TransactionAuthorization(<<1>>, serial_numbers, << <<20>>, <<21>> >>, <<30>>, <<40>>,
                               << <<50, 51>>, <<52, 53>> >>) :
        serial_numbers \in { << <<10, 11>>, <<12, 13>> >>, << <<12, 13>>, <<10, 11>> >>,
                             << <<10, 11>> >> } }

TransactionKernelSamples ==
    { TransactionKernel(authorized, old_records, new_records, <<70>>) :
        authorized \in KernelAuthorizations,
        old_records \in SampleVectors(<<60, 61>>, <<62, 63>>, NUM_INPUT_RECORDS),
        new_records \in SampleVectors(<<62, 63>>, <<64, 65>>, NUM_OUTPUT_RECORDS) }

ExecutionKernelSamples ==
    { ExecutionKernel(randomness, encrypted_records, <<100>>, <<110>>) :
        randomness \in SampleVectors(<<80>>, <<81>>, NUM_OUTPUT_RECORDS),
        encrypted_records \in SampleVectors(<<90, 91>>, <<92, 93>>, NUM_OUTPUT_RECORDS) }

KernelSamples == AuthorizationSamples \cup TransactionKernelSamples \cup ExecutionKernelSamples

\* Texts that are no kernel: an odd length, no digit, upper case digits.
KernelTexts == { <<"0">>, <<"g", "0">>, <<"0", "A">> }

\* A kernel in hand, or a text.
InitKernel ==
    /\ registers = [n \in Locators |-> Undefined]
    /\ halted = FALSE
    /\ bytes = <<>>
    /\ \/ /\ test \in KernelSamples
          /\ text = <<>>
          /\ outcome = Ok("kernel", 0, test)
       \/ /\ test = NoValue
          /\ text \in KernelTexts
          /\ \E kind \in DisplayedKinds : outcome = Ok("text", 0, [kind |-> kind])

\* kernel.write_le(&mut writer)
WriteKernel ==
    /\ outcome.op = "kernel"
    /\ bytes' = KernelWriteLE(test)
    /\ outcome' = Ok("write_le", 0, outcome.val)
    /\ UNCHANGED <<registers, halted, test, text>>

\* Kernel::read_le(&mut reader)
ReadKernel ==
    /\ outcome.op = "write_le"
    /\ LET Return(read) ==
               /\ test' = read.value
               /\ bytes' = read.rest
               /\ outcome' = IF read.ok THEN Ok("read_le", 0, outcome.val)
                             ELSE Err("read_le", 0, ReadErrorMessage)
       IN  Return(KernelReadLE(outcome.val.kind, bytes))
    /\ UNCHANGED <<registers, halted, text>>

\* kernel.to_string()
DisplayKernel ==
    /\ outcome.op = "kernel"
    /\ test.kind \in DisplayedKinds
    /\ text' = KernelDisplay(test)
    /\ outcome' = Ok("to_string", 0, outcome.val)
    /\ UNCHANGED <<registers, halted, test, bytes>>

\* Kernel::from_str(text)
KernelFromText ==
    /\ outcome.op \in {"to_string", "text"}
    /\ LET Return(read) ==
               /\ test' = read.value
               /\ outcome' = IF read.ok THEN Ok("from_str", 0, outcome.val)
                             ELSE Err("from_str", 0, ParseErrorMessage)
       IN  Return(KernelFromStr(outcome.val.kind, text))
    /\ UNCHANGED <<registers, halted, text, bytes>>

NextKernel == WriteKernel \/ ReadKernel \/ DisplayKernel \/ KernelFromText

SpecKernel == InitKernel /\ [][NextKernel]_vars

\* Whether the vectors of the kernel hold as many elements as the records of a
\* transaction.
FixedLengths(kernel) ==
    CASE kernel.kind = "TransactionAuthorization" ->
            /\ Len(kernel.serial_numbers) = NUM_INPUT_RECORDS
            /\ Len(kernel.commitments) = NUM_OUTPUT_RECORDS
            /\ Len(kernel.signatures) = NUM_INPUT_RECORDS
      [] kernel.kind = "TransactionKernel" ->
            /\ Len(kernel.authorized.serial_numbers) = NUM_INPUT_RECORDS
            /\ Len(kernel.authorized.commitments) = NUM_OUTPUT_RECORDS
            /\ Len(kernel.authorized.signatures) = NUM_INPUT_RECORDS
            /\ Len(kernel.old_records) = NUM_INPUT_RECORDS
            /\ Len(kernel.new_records) = NUM_OUTPUT_RECORDS
      [] kernel.kind = "ExecutionKernel" ->
            /\ Len(kernel.new_records_encryption_randomness) = NUM_OUTPUT_RECORDS
            /\ Len(kernel.new_encrypted_records) = NUM_OUTPUT_RECORDS

\* The components of the kernel in the order of its declaration, each vector
\* element by element.
InFieldOrder(kernel) ==
    CASE kernel.kind = "TransactionAuthorization" ->
            Concatenation(<<kernel.network_id>> \o kernel.serial_numbers \o kernel.commitments
                          \o <<kernel.value_balance, kernel.memo>> \o kernel.signatures)
      [] kernel.kind = "TransactionKernel" ->
            Concatenation(<<kernel.authorized.network_id>> \o kernel.authorized.serial_numbers
                          \o kernel.authorized.commitments
                          \o <<kernel.authorized.value_balance, kernel.authorized.memo>>
                          \o kernel.authorized.signatures
                          \o kernel.old_records \o kernel.new_records \o <<kernel.local_data>>)
      [] kernel.kind = "ExecutionKernel" ->
            Concatenation(kernel.new_records_encryption_randomness \o kernel.new_encrypted_records
                          \o <<kernel.program_commitment, kernel.program_randomness>>)

\* C21: a kernel whose vectors hold as many elements as a transaction has
\* input and output records is read back from its bytes, and from its text,
\* as it was written; write_le emits the components in the order of their
\* declaration and read_le takes them from the bytes in that order; and what
\* read_le and from_str return has vectors of those lengths whatever the
\* lengths of the vectors written.
KernelRoundTrip ==
    [][ /\ outcome'.op = "write_le" => bytes' = InFieldOrder(test)
        /\ (outcome'.op = "read_le" /\ FixedLengths(outcome.val))
            => (outcome'.res = "ok" /\ test' = outcome.val /\ bytes' = <<>>)
        /\ (outcome'.op = "from_str" /\ outcome.op = "to_string" /\ FixedLengths(outcome.val))
            => (outcome'.res = "ok" /\ test' = outcome.val)
        /\ (outcome'.op = "read_le" /\ outcome'.res = "ok")
            => /\ FixedLengths(test')
               /\ test'.kind = outcome.val.kind
               /\ InFieldOrder(test') \o bytes' = bytes
        /\ (outcome'.op = "from_str" /\ outcome'.res = "ok")
            => /\ FixedLengths(test')
               /\ test'.kind = outcome.val.kind
      ]_vars

\* C21, reached: a TransactionKernel of two old and two new records came back
\* from its text.
KernelCameBack ==
    /\ outcome.op = "from_str"
    /\ outcome.res = "ok"
    /\ test = outcome.val
    /\ test.kind = "TransactionKernel"
    /\ test.old_records = << <<60, 61>>, <<62, 63>> >>
    /\ test.new_records = << <<64, 65>>, <<62, 63>> >>
    /\ FixedLengths(test)
=============================================================================
